---- MODULE Spec2Model ----
(***************************************************************************)
(* A model of the RDT configuration resolver (pkg/rdt/config.go) and of    *)
(* the resctrl reconciliation engine (pkg/rdt/rdt.go, ctrlmongroup.go).    *)
(*                                                                         *)
(* Bitmasks are modelled as the set of their set bit positions, a subset   *)
(* of 0..63, so that 64-bit shifts truncate exactly as uint64 does.        *)
(***************************************************************************)
EXTENDS Integers, Sequences, FiniteSets, TLC

\* ------------------------------------------------------------------ bounds

\* Largest number of partitions in a partition-resolution input.
MaxParts == 3

\* ------------------------------------------------------- program constants

\* Width of a Bitmask (uint64).
WordBits == 64

Bits == 0 .. (WordBits - 1)

\* ------------------------------------------------------------ bit helpers

Min(S) == CHOOSE x \in S : \A y \in S : x <= y
Max(S) == CHOOSE x \in S : \A y \in S : x >= y

\* Index of the lowest set bit.
lsbOne(mask) == Min(mask)

\* Index of the highest set bit.
msbOne(mask) == Max(mask)

\* Index of the lowest clear bit (WordBits when every bit is set).
lsbZero(mask) == Min((0 .. WordBits) \ mask)

\* bits.OnesCount64
OnesCount(mask) == Cardinality(mask)

\* uint64 left shift: bits pushed past bit 63 are lost.
ShiftLeft(mask, n) == {b + n : b \in mask} \cap Bits

\* The contiguous run of n bits starting at bit lo, truncated to 64 bits:
\* ((1 << n) - 1) << lo.
Run(lo, n) == {b \in Bits : lo <= b /\ b < lo + n}

\* ------------------------------------------------------- cache allocations

\* The nil cacheAllocation interface value.
Nil == [kind |-> "nil", mask |-> {}, low |-> 0, high |-> 0]

\* catAbsoluteAllocation
Abs(m) == [kind |-> "abs", mask |-> m, low |-> 0, high |-> 0]

\* catPctAllocation
Pct(p) == [kind |-> "pct", mask |-> {}, low |-> 0, high |-> p]

\* catPctRangeAllocation
Rng(l, h) == [kind |-> "range", mask |-> {}, low |-> l, high |-> h]

\* catAllocation
CatAlloc(u, c, d) == [Unified |-> u, Code |-> c, Data |-> d]

\* The zero catAllocation (what a map returns for a missing cache id).
ZeroCatAlloc == CatAlloc(Nil, Nil, Nil)

SchemaTypes == <<"unified", "code", "data">>

get(a, typ) ==
  CASE typ = "code" -> a.Code
    [] typ = "data" -> a.Data
    [] OTHER -> a.Unified

set(a, typ, v) ==
  CASE typ = "code" -> [a EXCEPT !.Code = v]
    [] typ = "data" -> [a EXCEPT !.Data = v]
    [] OTHER -> [a EXCEPT !.Unified = v]

getEffective(a, typ) ==
  IF typ = "code" /\ a.Code # Nil THEN a.Code
  ELSE IF typ = "data" /\ a.Data # Nil THEN a.Data
  ELSE a.Unified

\* Results of the Overlay functions: the error ("" for none) and the value.
Ok(v) == [err |-> "", val |-> v]
Err(e) == [err |-> e, val |-> {}]

verifyCatBaseMask(baseMask, minBits) ==
  IF baseMask = {} THEN "empty basemask"
  ELSE IF OnesCount(baseMask) # msbOne(baseMask) - lsbOne(baseMask) + 1
       THEN "more than one block"
  ELSE IF OnesCount(baseMask) < minBits THEN "fewer than minBits"
  ELSE ""

\* catAbsoluteAllocation.Overlay without the bounds check.
catAbsoluteAllocationOverlayNoCheck(a, baseMask, minBits) ==
  LET verr == verifyCatBaseMask(baseMask, minBits) IN
  IF verr # "" THEN Err(verr)
  ELSE Ok(ShiftLeft(a, lsbOne(baseMask)))

catAbsoluteAllocationOverlay(a, baseMask, minBits) ==
  LET verr == verifyCatBaseMask(baseMask, minBits) IN
  IF verr # "" THEN Err(verr)
  ELSE LET shiftWidth == lsbOne(baseMask)
           bitmask == ShiftLeft(a, shiftWidth)
       IN IF bitmask \cup baseMask # baseMask
          THEN Err("does not fit basemask")
          ELSE Ok(bitmask)

\* The widening of a too narrow range, from the msb end first.
catPctRangeWidenMsbFirst(lsb, msb, baseMaskNumBits, minBits) ==
  LET numBits == msb - lsb + 1 IN
  IF numBits >= minBits THEN [err |-> "", lsb |-> lsb, msb |-> msb]
  ELSE LET gap0 == minBits - numBits
           msbAvailable == baseMaskNumBits - msb - 1
           msb1 == IF gap0 <= msbAvailable THEN msb + gap0 ELSE msb + msbAvailable
           gap1 == IF gap0 <= msbAvailable THEN 0 ELSE gap0 - msbAvailable
       IN IF gap1 <= lsb
          THEN [err |-> "", lsb |-> lsb - gap1, msb |-> msb1]
          ELSE [err |-> "BUG: not enough bits", lsb |-> 0, msb |-> 0]

\* The widening of a too narrow range [lsb, msb] to minBits bits.
catPctRangeWiden(lsb, msb, baseMaskNumBits, minBits) ==
  LET numBits == msb - lsb + 1 IN
  IF numBits >= minBits THEN [err |-> "", lsb |-> lsb, msb |-> msb]
  ELSE LET gap0 == minBits - numBits
           lsb1 == IF gap0 <= lsb THEN lsb - gap0 ELSE 0
           gap1 == IF gap0 <= lsb THEN 0 ELSE gap0 - lsb
           msbAvailable == baseMaskNumBits - msb - 1
       IN IF gap1 <= msbAvailable
          THEN [err |-> "", lsb |-> lsb1, msb |-> msb + gap1]
          ELSE [err |-> "BUG: not enough bits", lsb |-> 0, msb |-> 0]

\* catPctRangeAllocation.Overlay with the width of the base mask taken one
\* bit short (msb - lsb).
catPctRangeAllocationOverlayNarrow(lowPct, highPct, baseMask, minBits) ==
  LET verr == verifyCatBaseMask(baseMask, minBits) IN
  IF verr # "" THEN Err(verr)
  ELSE LET baseMaskLsb == lsbOne(baseMask)
           baseMaskNumBits == msbOne(baseMask) - baseMaskLsb
           low == IF lowPct = 0 THEN 1 ELSE lowPct
       IN IF low > highPct \/ low > 100 \/ highPct > 100
          THEN Err("invalid percentage range")
          ELSE LET lsb == ((low - 1) * baseMaskNumBits) \div 100
                   msb == ((highPct - 1) * baseMaskNumBits) \div 100
                   w == catPctRangeWiden(lsb, msb, baseMaskNumBits, minBits)
               IN IF w.err # "" THEN Err(w.err)
                  ELSE Ok(Run(w.lsb + baseMaskLsb, w.msb - w.lsb + 1))

catPctRangeAllocationOverlay(lowPct, highPct, baseMask, minBits) ==
  LET verr == verifyCatBaseMask(baseMask, minBits) IN
  IF verr # "" THEN Err(verr)
  ELSE LET baseMaskMsb == msbOne(baseMask)
           baseMaskLsb == lsbOne(baseMask)
           baseMaskNumBits == baseMaskMsb - baseMaskLsb + 1
           low == IF lowPct = 0 THEN 1 ELSE lowPct
           high == highPct
       IN IF low > high \/ low > 100 \/ high > 100
          THEN Err("invalid percentage range")
          ELSE LET lsb == ((low - 1) * baseMaskNumBits) \div 100
                   msb == ((high - 1) * baseMaskNumBits) \div 100
                   w == catPctRangeWiden(lsb, msb, baseMaskNumBits, minBits)
               IN IF w.err # "" THEN Err(w.err)
                  ELSE Ok(Run(w.lsb + baseMaskLsb, w.msb - w.lsb + 1))

catPctAllocationOverlay(a, baseMask, minBits) ==
  catPctRangeAllocationOverlay(0, a, baseMask, minBits)

\* Dynamic dispatch of cacheAllocation.Overlay; calling it on the nil
\* interface value is a nil dereference.
Overlay(a, baseMask, minBits) ==
  CASE a.kind = "abs" -> catAbsoluteAllocationOverlay(a.mask, baseMask, minBits)
    [] a.kind = "pct" -> catPctAllocationOverlay(a.high, baseMask, minBits)
    [] a.kind = "range" ->
         catPctRangeAllocationOverlay(a.low, a.high, baseMask, minBits)
    [] OTHER -> Err("panic")

\* ------------------------------------------------ class level (cache)

\* A catSchema: Alloc is nil, or maps cache ids to catAllocations.
NilSchema == [isNil |-> TRUE, alloc |-> <<>>]
Schema(f) == [isNil |-> FALSE, alloc |-> f]

\* s.Alloc[id]: the zero catAllocation when the id is missing.
AllocOf(s, id) == IF id \in DOMAIN s.alloc THEN s.alloc[id] ELSE ZeroCatAlloc

\* utils.SortUint64s of a set of cache ids.
RECURSIVE SortUint64s(_)
SortUint64s(ids) ==
  IF ids = {} THEN <<>> ELSE <<Min(ids)>> \o SortUint64s(ids \ {Min(ids)})

\* The loop of catSchema.ToStr over the sorted cache ids of the base schema;
\* line collects the <<id, bitmask>> pairs written so far.
RECURSIVE toStrLoop(_, _, _, _, _, _)
toStrLoop(s, typ, baseSchema, minBits, ids, line) ==
  IF ids = <<>> THEN [err |-> "", line |-> line]
  ELSE
    LET id == Head(ids)
        base == getEffective(baseSchema.alloc[id], typ)
    IN
    IF base.kind # "abs"
    THEN [err |-> "BUG: basemask not of type catAbsoluteAllocation", line |-> <<>>]
    ELSE
      LET r == IF s.isNil THEN Ok(base.mask)
               ELSE Overlay(getEffective(AllocOf(s, id), typ), base.mask, minBits)
      IN IF r.err # "" THEN [err |-> r.err, line |-> <<>>]
         ELSE toStrLoop(s, typ, baseSchema, minBits, Tail(ids),
                        Append(line, <<id, r.val>>))

\* catSchema.ToStr: the line of sub-type typ, as the list of <<id, bitmask>>.
catSchemaToStr(s, typ, baseSchema, minBits) ==
  toStrLoop(s, typ, baseSchema, minBits, SortUint64s(DOMAIN baseSchema.alloc), <<>>)

\* ------------------------------------------------------ raw allocations

\* A raw allocation of the configuration (interface{}): nil, a bare string
\* or list ("scalar", kept in all), a map with or without the key 'all'
\* (per holds the values of the cache id keys), or anything else.
RawNil == [shape |-> "nil", hasAll |-> FALSE, all |-> <<>>, per |-> <<>>]
RawScalar(v) == [shape |-> "scalar", hasAll |-> FALSE, all |-> v, per |-> <<>>]
RawMap(v, f) == [shape |-> "map", hasAll |-> TRUE, all |-> v, per |-> f]
RawMapNoAll(f) == [shape |-> "map", hasAll |-> FALSE, all |-> <<>>, per |-> f]
RawInvalid == [shape |-> "invalid", hasAll |-> FALSE, all |-> <<>>, per |-> <<>>]

\* preparseRawAllocations: the raw value of every cache id of cacheIds.
preparseRawAllocations(raw, defaultVal, defaultIsNil, cacheIds) ==
  CASE raw.shape = "nil" -> [err |-> "", isNil |-> TRUE, vals |-> <<>>]
    [] raw.shape = "invalid" ->
         [err |-> "invalid structure of allocation schema", isNil |-> FALSE,
          vals |-> <<>>]
    [] raw.shape = "map" /\ ~raw.hasAll /\ defaultIsNil ->
         [err |-> "'all' is missing", isNil |-> TRUE, vals |-> <<>>]
    [] OTHER ->
         LET d == IF raw.shape = "scalar" \/ raw.hasAll THEN raw.all
                  ELSE defaultVal
         IN [err |-> "", isNil |-> FALSE,
             vals |-> [i \in cacheIds |->
                         IF raw.shape = "map" /\ i \in DOMAIN raw.per
                         THEN raw.per[i] ELSE d]]

\* ---------------------------------------------------- memory bandwidth

\* 32-bit values are kept as <<high 16 bits, low 16 bits>>.
U32(hi, lo) == <<hi, lo>>
U32Gt(a, b) == a[1] > b[1] \/ (a[1] = b[1] /\ a[2] > b[2])

\* math.MaxUint32
MaxUint32 == U32(65535, 65535)

\* One element of an mbAllocation list: a string with the suffix "%" (pct is
\* the number before it) or "MBps" (mbps is the number before it), a string
\* with another suffix ("other"), or a value that is no string.
TokPct(n) == [unit |-> "%", pct |-> n, mbps |-> U32(0, 0), nan |-> FALSE]
TokMbps(v) == [unit |-> "MBps", pct |-> 0, mbps |-> v, nan |-> FALSE]
TokNaN(u) == [unit |-> u, pct |-> 0, mbps |-> U32(0, 0), nan |-> TRUE]
TokOther == [unit |-> "other", pct |-> 0, mbps |-> U32(0, 0), nan |-> FALSE]
TokNonString == [unit |-> "nonstring", pct |-> 0, mbps |-> U32(0, 0), nan |-> FALSE]

\* A value of an mbAllocation: a list of elements, or a bare string.
MbList(toks) == [isList |-> TRUE, toks |-> toks]
MbString == [isList |-> FALSE, toks |-> <<>>]

\* strconv.ParseUint(s, 10, 7) accepts 0..127.
MaxPct7 == 127

\* parseMBAllocation: the first value of the list in the unit of the active
\* mode (val is a number in percentage mode, a 32-bit value in MBps mode).
RECURSIVE parseMBAllocation(_, _)
parseMBAllocation(raw, mbpsEnabled) ==
  IF raw = <<>>
  THEN [err |-> IF mbpsEnabled THEN "missing 'MBps' value" ELSE "missing '%' value",
        val |-> 0]
  ELSE LET v == Head(raw) IN
       IF v.unit = "%" /\ ~mbpsEnabled
       THEN IF v.nan \/ v.pct > MaxPct7 THEN [err |-> "invalid syntax", val |-> 0]
            ELSE [err |-> "", val |-> v.pct]
       ELSE IF v.unit = "MBps" /\ mbpsEnabled
       THEN IF v.nan THEN [err |-> "invalid syntax", val |-> 0]
            ELSE [err |-> "", val |-> v.mbps]
       ELSE parseMBAllocation(Tail(raw), mbpsEnabled)

\* An mbSchema: nil, or a map from cache ids to values.
NilMb == [isNil |-> TRUE, alloc |-> <<>>]
Mb(f) == [isNil |-> FALSE, alloc |-> f]

\* parseRawMBAllocations (of several failing cache ids, the error of the
\* smallest is reported).
parseRawMBAllocations(raw, mbpsEnabled, cacheIds) ==
  LET pre == preparseRawAllocations(raw, MbList(<<>>), FALSE, cacheIds) IN
  IF pre.err # "" \/ pre.isNil THEN [err |-> pre.err, mb |-> NilMb]
  ELSE
    LET one == [i \in cacheIds |->
                  IF ~pre.vals[i].isList THEN [err |-> "not a list value", val |-> 0]
                  ELSE parseMBAllocation(pre.vals[i].toks, mbpsEnabled)]
        bad == {i \in cacheIds : one[i].err # ""}
    IN IF bad # {} THEN [err |-> one[Min(bad)].err, mb |-> NilMb]
       ELSE [err |-> "", mb |-> Mb([i \in cacheIds |-> one[i].val])]

\* The MB schema of one partition in resolveMBPartitions: the requested
\* values, raised to the minimum bandwidth in percentage mode.
resolveMBPartition(raw, mbpsEnabled, minBandwidth, cacheIds) ==
  LET a == parseRawMBAllocations(raw, mbpsEnabled, cacheIds) IN
  IF a.err # "" THEN [err |-> a.err, mb |-> <<>>]
  ELSE IF a.mb.isNil THEN [err |-> "", mb |-> <<>>]
  ELSE [err |-> "",
        mb |-> [i \in cacheIds |->
                  IF ~mbpsEnabled /\ a.mb.alloc[i] < minBandwidth
                  THEN minBandwidth ELSE a.mb.alloc[i]]]

\* s[id] of an mbSchema: the zero value when the id is missing.
MbOf(s, id, mbpsEnabled) ==
  IF id \in DOMAIN s.alloc THEN s.alloc[id]
  ELSE IF mbpsEnabled THEN U32(0, 0) ELSE 0

\* The value mbSchema.ToStr writes for one cache id.
mbValue(s, id, baseAllocation, mbpsEnabled, minBandwidth) ==
  IF mbpsEnabled
  THEN LET value == IF s.isNil THEN MaxUint32 ELSE MbOf(s, id, mbpsEnabled)
       IN IF U32Gt(value, baseAllocation) THEN baseAllocation ELSE value
  ELSE LET allocation == IF s.isNil THEN 100 ELSE MbOf(s, id, mbpsEnabled)
           value == (allocation * baseAllocation) \div 100
       IN IF value < minBandwidth THEN minBandwidth ELSE value

\* mbSchema.ToStr without the guaranteed minimum bandwidth.
mbSchemaToStrNoMin(s, base, mbpsEnabled, minBandwidth) ==
  LET ids == SortUint64s(DOMAIN base) IN
  [k \in 1 .. Len(ids) |->
     <<ids[k], mbValue(s, ids[k], base[ids[k]], mbpsEnabled, 0)>>]

\* mbSchema.ToStr without the limit to the base value in MBps mode.
mbSchemaToStrNoCap(s, base, mbpsEnabled, minBandwidth) ==
  LET ids == SortUint64s(DOMAIN base) IN
  [k \in 1 .. Len(ids) |->
     <<ids[k],
       IF mbpsEnabled
       THEN (IF s.isNil THEN MaxUint32 ELSE MbOf(s, ids[k], mbpsEnabled))
       ELSE mbValue(s, ids[k], base[ids[k]], mbpsEnabled, minBandwidth)>>]

\* mbSchema.ToStr: the MB line, as the list of <<id, value>> over the sorted
\* cache ids of the base (the partition's MB schema).
mbSchemaToStr(s, base, mbpsEnabled, minBandwidth) ==
  LET ids == SortUint64s(DOMAIN base) IN
  [k \in 1 .. Len(ids) |->
     <<ids[k], mbValue(s, ids[k], base[ids[k]], mbpsEnabled, minBandwidth)>>]

\* The MB schemas of all partitions (resolveMBPartitions), in partition
\* order; the first error ends the resolution.
resolveMBPartitions(raws, mbpsEnabled, minBandwidth, cacheIds) ==
  LET one == [p \in 1 .. Len(raws) |->
                resolveMBPartition(raws[p], mbpsEnabled, minBandwidth, cacheIds)]
      bad == {p \in 1 .. Len(raws) : one[p].err # ""}
  IN IF bad # {} THEN [err |-> one[Min(bad)].err, mb |-> <<>>]
     ELSE [err |-> "", mb |-> [p \in 1 .. Len(raws) |-> one[p].mb]]

\* The MB schema of a class in resolveClasses.
resolveClassMB(raw, partitionRaw, mbpsEnabled, cacheIds) ==
  LET a == parseRawMBAllocations(raw, mbpsEnabled, cacheIds) IN
  IF a.err # "" THEN a
  ELSE IF ~a.mb.isNil /\ partitionRaw.shape = "nil"
  THEN [err |-> "MB allocation missing from partition", mb |-> NilMb]
  ELSE a

\* ------------------------------------------- partition resolution (cache)

\* All orderings of the indices 1..n.
Orders(n) == {s \in [1 .. n -> 1 .. n] : \A i, j \in 1 .. n : s[i] = s[j] => i = j}

\* sort.Slice(reqs, req ascending) over the partitions 1..Len(pct): the order
\* among equal requests is not specified, `tie` ranks them.
sortReqs(pct, tie) ==
  CHOOSE s \in Orders(Len(pct)) :
    \A i, j \in 1 .. Len(pct) :
      i < j => \/ pct[s[i]] < pct[s[j]]
               \/ (pct[s[i]] = pct[s[j]] /\ tie[s[i]] < tie[s[j]])

RECURSIVE SumSeq(_)
SumSeq(s) == IF s = <<>> THEN 0 ELSE Head(s) + SumSeq(Tail(s))

\* The loop that calculates the number of bits granted to each request, in
\* sorted order: acc collects numBits per sorted position.
RECURSIVE calcGrants(_, _, _, _, _, _, _)
calcGrants(reqs, i, bitsAvailable, percentageTotal, bitsTotal, minBits, acc) ==
  IF i > Len(reqs) THEN [err |-> "", bits |-> acc]
  ELSE IF bitsTotal = 0 THEN [err |-> "panic", bits |-> acc]
  ELSE
    LET percentageAvailable == (bitsAvailable * percentageTotal) \div bitsTotal IN
    IF bitsAvailable < minBits
    THEN [err |-> "not enough exclusive bits", bits |-> acc]
    ELSE IF percentageAvailable = 0 THEN [err |-> "panic", bits |-> acc]
    ELSE
      LET n0 == (reqs[i] * bitsAvailable) \div percentageAvailable
          n1 == IF n0 < minBits THEN minBits ELSE n0
          numBits == IF n1 > bitsAvailable \/ i = Len(reqs)
                     THEN bitsAvailable ELSE n1
      IN calcGrants(reqs, i + 1, bitsAvailable - numBits, percentageTotal,
                    bitsTotal, minBits, Append(acc, numBits))

\* The first partition, in name order, whose request is not a plain
\* percentage (0 when all are).
firstNotPct(requests, typ) ==
  LET bad == {p \in 1 .. Len(requests) : get(requests[p], typ).kind # "pct"}
  IN IF bad = {} THEN 0 ELSE Min(bad)

\* composeMasks with the running offset never advanced: every partition's
\* mask starts at bit 0.
RECURSIVE composeMasksNoAdvance(_, _, _, _, _)
composeMasksNoAdvance(grants, bitsOf, typ, p, lsbID) ==
  IF p > Len(grants) THEN grants
  ELSE composeMasksNoAdvance(
         [grants EXCEPT ![p] = set(grants[p], typ, Abs(Run(lsbID, bitsOf[p])))],
         bitsOf, typ, p + 1, lsbID)

\* The bitmasks of the partitions, laid out from bit 0 in name order.
RECURSIVE composeMasks(_, _, _, _, _)
composeMasks(grants, bitsOf, typ, p, lsbID) ==
  IF p > Len(grants) THEN grants
  ELSE composeMasks(
         [grants EXCEPT ![p] = set(grants[p], typ, Abs(Run(lsbID, bitsOf[p])))],
         bitsOf, typ, p + 1, lsbID + bitsOf[p])

\* requests, grants: one catAllocation per partition, in partition name
\* order, for the cache id being resolved.
resolveRelative(requests, grants, typ, minBits, cbmBits, tie) ==
  LET n == Len(requests)
      bad == firstNotPct(requests, typ)
  IN
  IF bad # 0
  THEN [err |-> CASE get(requests[bad], typ).kind = "abs" -> "mixing relative and absolute"
                  [] get(requests[bad], typ).kind = "range" -> "percentage ranges not supported"
                  [] OTHER -> "BUG: unknown cacheAllocation type",
        grants |-> grants]
  ELSE
    LET pct == [p \in 1 .. n |-> get(requests[p], typ).high]
        percentageTotal == SumSeq(pct)
    IN
    IF percentageTotal > 100 THEN [err |-> "exceeds 100%", grants |-> grants]
    ELSE
      LET order == sortReqs(pct, tie)
          sorted == [i \in 1 .. n |-> pct[order[i]]]
          bitsTotal == (percentageTotal * cbmBits) \div 100
          g == calcGrants(sorted, 1, bitsTotal, percentageTotal, bitsTotal,
                          minBits, <<>>)
      IN
      IF g.err # "" THEN [err |-> g.err, grants |-> grants]
      ELSE
        LET pos == [p \in 1 .. n |-> CHOOSE i \in 1 .. n : order[i] = p]
            bitsOf == [p \in 1 .. n |-> g.bits[pos[p]]]
        IN [err |-> "", grants |-> composeMasks(grants, bitsOf, typ, 1, 0)]

RECURSIVE resolveAbsoluteLoop(_, _, _, _, _)
resolveAbsoluteLoop(requests, grants, typ, p, mask) ==
  IF p > Len(requests) THEN [err |-> "", grants |-> grants]
  ELSE LET a == get(requests[p], typ) IN
       IF a.kind # "abs"
       THEN [err |-> "mixing absolute and relative", grants |-> grants]
       ELSE IF a.mask \cap mask # {}
       THEN [err |-> "overlapping partition allocation", grants |-> grants]
       ELSE resolveAbsoluteLoop(requests,
                                [grants EXCEPT ![p] = set(grants[p], typ, a)],
                                typ, p + 1, mask \cup a.mask)

\* resolveAbsolute comparing each request with the previous partition's
\* request only, instead of the accumulated mask.
RECURSIVE resolveAbsolutePrevOnlyLoop(_, _, _, _, _)
resolveAbsolutePrevOnlyLoop(requests, grants, typ, p, mask) ==
  IF p > Len(requests) THEN [err |-> "", grants |-> grants]
  ELSE LET a == get(requests[p], typ) IN
       IF a.kind # "abs"
       THEN [err |-> "mixing absolute and relative", grants |-> grants]
       ELSE IF a.mask \cap mask # {}
       THEN [err |-> "overlapping partition allocation", grants |-> grants]
       ELSE resolveAbsolutePrevOnlyLoop(requests,
                                [grants EXCEPT ![p] = set(grants[p], typ, a)],
                                typ, p + 1, a.mask)

resolveAbsolutePrevOnly(requests, grants, typ) ==
  resolveAbsolutePrevOnlyLoop(requests, grants, typ, 1, {})

resolveAbsolute(requests, grants, typ) ==
  resolveAbsoluteLoop(requests, grants, typ, 1, {})

\* resolveType taking the requests of a type for absent when the first
\* partition has none: the other partitions are not looked at.
resolveTypeFirstOnly(requests, grants, typ, minBits, cbmBits, tie) ==
  IF Len(requests) = 0 THEN [err |-> "panic", grants |-> grants]
  ELSE
    LET a == get(requests[1], typ)
        isNil == (a = Nil)
    IN
    IF ~isNil /\ \E p \in 1 .. Len(requests) : get(requests[p], typ) = Nil
    THEN [err |-> "missing allocation request", grants |-> grants]
    ELSE CASE a.kind = "abs" -> resolveAbsolute(requests, grants, typ)
           [] a.kind = "nil" -> [err |-> "", grants |-> grants]
           [] OTHER -> resolveRelative(requests, grants, typ, minBits, cbmBits, tie)

\* resolveType resolves one schema type for one cache id.
resolveType(requests, grants, typ, minBits, cbmBits, tie) ==
  IF Len(requests) = 0 THEN [err |-> "panic", grants |-> grants]
  ELSE
    LET a == get(requests[1], typ)
        isNil == (a = Nil)
    IN
    IF \E p \in 1 .. Len(requests) : (get(requests[p], typ) = Nil) # isNil
    THEN [err |-> "missing allocation request", grants |-> grants]
    ELSE CASE a.kind = "abs" -> resolveAbsolute(requests, grants, typ)
           [] a.kind = "nil" -> [err |-> "", grants |-> grants]
           [] OTHER -> resolveRelative(requests, grants, typ, minBits, cbmBits, tie)

\* resolveID resolves the partition allocations for one cache id: unified,
\* code, data in this order, stopping at the first error.
RECURSIVE resolveIDLoop(_, _, _, _, _, _)
resolveIDLoop(requests, grants, t, minBits, cbmBits, tie) ==
  IF t > Len(SchemaTypes) THEN [err |-> "", grants |-> grants]
  ELSE LET r == resolveType(requests, grants, SchemaTypes[t], minBits, cbmBits, tie)
       IN IF r.err # "" THEN r
          ELSE resolveIDLoop(requests, r.grants, t + 1, minBits, cbmBits, tie)

resolveID(requests, minBits, cbmBits, tie) ==
  resolveIDLoop(requests, [p \in 1 .. Len(requests) |-> ZeroCatAlloc], 1,
                minBits, cbmBits, tie)

\* ------------------------------------------------- cache configuration

\* A string of a cache allocation: "N%", "L-H%", a bitmask (hex or list
\* format, mask is the set of its bits) or a string that is none of these.
StrPct(n) == [form |-> "pct", mask |-> {}, low |-> 0, high |-> n]
StrRange(l, h) == [form |-> "range", mask |-> {}, low |-> l, high |-> h]
StrMask(m) == [form |-> "mask", mask |-> m, low |-> 0, high |-> 0]
StrBad == [form |-> "bad", mask |-> {}, low |-> 0, high |-> 0]
\* An absent key of a cache schema map.
NoStr == [form |-> "none", mask |-> {}, low |-> 0, high |-> 0]

\* parseString: a string value into a cacheAllocation.
parseString(data, minBits) ==
  CASE data.form = "pct" ->
         IF data.high > MaxPct7 THEN [err |-> "value out of range", val |-> Nil]
         ELSE IF data.high > 100
         THEN [err |-> "invalid percentage value", val |-> Nil]
         ELSE [err |-> "", val |-> Pct(data.high)]
    [] data.form = "range" ->
         IF data.low > MaxPct7 \/ data.high > MaxPct7
         THEN [err |-> "value out of range", val |-> Nil]
         ELSE IF data.low > data.high \/ data.low > 100 \/ data.high > 100
         THEN [err |-> "invalid percentage range", val |-> Nil]
         ELSE [err |-> "", val |-> Rng(data.low, data.high)]
    [] data.form = "mask" ->
         IF data.mask = {}
              \/ OnesCount(data.mask) # msbOne(data.mask) - lsbOne(data.mask) + 1
         THEN [err |-> "invalid cache bitmask: more than one continuous block of ones",
               val |-> Nil]
         ELSE IF OnesCount(data.mask) < minBits
         THEN [err |-> "invalid cache bitmask: number of bits less than minimum",
               val |-> Nil]
         ELSE [err |-> "", val |-> Abs(data.mask)]
    [] OTHER -> [err |-> "invalid syntax", val |-> Nil]

\* The raw value of one cache id: a bare string (in u), or a map with the
\* keys unified, code, data (an absent key is NoStr).
CatString(s) == [isMap |-> FALSE, u |-> s, c |-> NoStr, d |-> NoStr]
CatMap(u, c, d) == [isMap |-> TRUE, u |-> u, c |-> c, d |-> d]

\* parseSchema: a string or a map of strings into a catAllocation. The map
\* is ranged over in an order Go does not specify; of several failing keys
\* the error of the first in the order unified, code, data is given.
parseSchema(raw, minBits) ==
  LET one(s) == IF s.form = "none" THEN [err |-> "", val |-> Nil]
                ELSE parseString(s, minBits)
      checked(allocation) ==
        IF allocation.Unified = Nil
        THEN [err |-> "'unified' not specified in cache schema", val |-> allocation]
        ELSE IF allocation.Code # Nil /\ allocation.Data = Nil
        THEN [err |-> "'code' specified but missing 'data'", val |-> allocation]
        ELSE IF allocation.Code = Nil /\ allocation.Data # Nil
        THEN [err |-> "'data' specified but missing 'code'", val |-> allocation]
        ELSE [err |-> "", val |-> allocation]
      parsed(u, c, d) ==
        IF u.err # "" THEN [err |-> u.err, val |-> ZeroCatAlloc]
        ELSE IF c.err # "" THEN [err |-> c.err, val |-> ZeroCatAlloc]
        ELSE IF d.err # "" THEN [err |-> d.err, val |-> ZeroCatAlloc]
        ELSE checked(CatAlloc(u.val, c.val, d.val))
  IN parsed(one(raw.u), one(raw.c), one(raw.d))

\* catConfigParser.parse: a raw cache allocation of the configuration into a
\* catSchema over the cache ids of the level (of several failing cache ids
\* the error of the smallest is given).
parse(raw, ids, minBits) ==
  LET first(one, bad) ==
        IF bad # {} THEN [err |-> one[Min(bad)].err, schema |-> Schema(<<>>)]
        ELSE [err |-> "", schema |-> Schema([i \in ids |-> one[i].val])]
      each(one) == first(one, {i \in ids : one[i].err # ""})
      parsed(pre) ==
        IF pre.err # "" \/ pre.isNil THEN [err |-> pre.err, schema |-> NilSchema]
        ELSE each([i \in ids |-> parseSchema(pre.vals[i], minBits)])
  IN parsed(preparseRawAllocations(raw, CatString(StrPct(100)), FALSE, ids))

\* ------------------------------------------------ resolving a Config

\* info.cat[lvl] for a level: whether the unified or the code and data
\* schemata are supported, the cache ids, min_cbm_bits and the number of
\* bits of the cbm mask.
CatInfo(unified, cdp, ids, minBits, cbmBits) ==
  [unified |-> unified, cdp |-> cdp, ids |-> ids, minBits |-> minBits,
   cbmBits |-> cbmBits]

\* info.cat[lvl] of a level the system does not have: no cache ids,
\* minCbmBits() is 0 and cbmMask() has all bits set.
CatInfoNone == CatInfo(FALSE, FALSE, {}, 0, WordBits)

\* info.mb
MbInfo(minBandwidth, ids, mbpsEnabled) ==
  [minBandwidth |-> minBandwidth, ids |-> ids, mbpsEnabled |-> mbpsEnabled]

\* mbInfo.Supported
mbSupported(i) == i.minBandwidth # 0

Levels == <<"L2", "L3">>

\* cacheResolver.resolve: resolveID for every cache id of the level, in the
\* order of r.ids. requests is the sequence of the partitions' catSchemas
\* in partition name order, grants the catSchemas granted so far.
RECURSIVE resolverResolve(_, _, _, _, _, _)
resolverResolve(requests, grants, ids, minBits, cbmBits, tie) ==
  IF ids = <<>> THEN [err |-> "", grants |-> grants]
  ELSE
    LET id == Head(ids)
        next(r) ==
          IF r.err # "" THEN [err |-> r.err, grants |-> <<>>]
          ELSE resolverResolve(
                 requests,
                 [p \in 1 .. Len(requests) |->
                    IF r.grants[p] = ZeroCatAlloc THEN grants[p]
                    ELSE Schema(grants[p].alloc @@ (id :> r.grants[p]))],
                 Tail(ids), minBits, cbmBits, tie)
    IN next(resolveID([p \in 1 .. Len(requests) |-> AllocOf(requests[p], id)],
                      minBits, cbmBits, tie))

\* resolveCatPartitions: raws is the sequence of the partitions' raw
\* allocations of the level in partition name order; the result holds the
\* catSchema granted to every partition.
resolveCatPartitions(raws, i, tie) ==
  LET granted(parsed) ==
        IF \E p \in 1 .. Len(raws) : parsed[p].err # ""
        THEN [err |-> "failed to parse allocation request", grants |-> <<>>]
        ELSE resolverResolve([p \in 1 .. Len(raws) |-> parsed[p].schema],
                             [p \in 1 .. Len(raws) |-> Schema(<<>>)],
                             SortUint64s(i.ids), i.minBits, i.cbmBits, tie)
  IN granted([p \in 1 .. Len(raws) |-> parse(raws[p], i.ids, i.minBits)])

\* A partition and a class of a Config (the raw allocations as read from
\* the configuration), and the Config: the Optional flags of the options
\* and the partitions in the order of their names.
Partition(l2, l3, mb, classes) ==
  [L2Allocation |-> l2, L3Allocation |-> l3, MBAllocation |-> mb,
   Classes |-> classes]
Class(l2, l3, mb) == [L2Schema |-> l2, L3Schema |-> l3, MBSchema |-> mb]
Config(optL2, optL3, optMB, partitions) ==
  [Options |-> [L2 |-> optL2, L3 |-> optL3, MB |-> optMB],
   Partitions |-> partitions]

\* resolvePartitions: L2, then L3, then MB.
resolvePartitions(c, i, tie) ==
  LET n == Len(c.Partitions)
      conf(l2, l3, mb) ==
        IF l2.err # "" THEN [err |-> l2.err, conf |-> <<>>]
        ELSE IF l3.err # "" THEN [err |-> l3.err, conf |-> <<>>]
        ELSE IF mb.err # ""
        THEN [err |-> "failed to resolve MB allocation for partition", conf |-> <<>>]
        ELSE [err |-> "",
              conf |-> [p \in 1 .. n |->
                          [CAT |-> [L2 |-> l2.grants[p], L3 |-> l3.grants[p]],
                           MB |-> mb.mb[p]]]]
  IN conf(resolveCatPartitions([p \in 1 .. n |-> c.Partitions[p].L2Allocation],
                               i.cat.L2, tie),
          resolveCatPartitions([p \in 1 .. n |-> c.Partitions[p].L3Allocation],
                               i.cat.L3, tie),
          resolveMBPartitions([p \in 1 .. n |-> c.Partitions[p].MBAllocation],
                              i.mb.mbpsEnabled, i.mb.minBandwidth, i.mb.ids))

\* One round of the loops of resolveClasses: the class gname of partition
\* bname, after the classes in `classes` were resolved.
resolveClass(c, i, bname, gname, classes) ==
  LET partition == c.Partitions[bname]
      class == partition.Classes[gname]
      resolved(l2, l3, mb) ==
        IF gname \in DOMAIN classes
        THEN [err |-> "class names must be unique", classes |-> classes]
        ELSE IF l2.err # ""
        THEN [err |-> "failed to resolve L2 allocation for class", classes |-> classes]
        ELSE IF ~l2.schema.isNil /\ partition.L2Allocation.shape = "nil"
        THEN [err |-> "L2 allocation missing from partition", classes |-> classes]
        ELSE IF l3.err # ""
        THEN [err |-> "failed to resolve L3 allocation for class", classes |-> classes]
        ELSE IF ~l3.schema.isNil /\ partition.L3Allocation.shape = "nil"
        THEN [err |-> "L3 allocation missing from partition", classes |-> classes]
        ELSE IF mb.err # ""
        THEN [err |-> "failed to resolve MB allocation for class", classes |-> classes]
        ELSE IF ~mb.mb.isNil /\ partition.MBAllocation.shape = "nil"
        THEN [err |-> "MB allocation missing from partition", classes |-> classes]
        ELSE [err |-> "",
              classes |-> (gname :> [Partition |-> bname,
                                     CATSchema |-> [L2 |-> l2.schema, L3 |-> l3.schema],
                                     MBSchema |-> mb.mb]) @@ classes]
  IN resolved(parse(class.L2Schema, i.cat.L2.ids, i.cat.L2.minBits),
              parse(class.L3Schema, i.cat.L3.ids, i.cat.L3.minBits),
              parseRawMBAllocations(class.MBSchema, i.mb.mbpsEnabled, i.mb.ids))

\* resolveClasses: the two loops range over Go maps, visit is the order in
\* which they reach the classes, as <<partition, class name>> pairs.
RECURSIVE resolveClasses(_, _, _, _)
resolveClasses(c, i, visit, classes) ==
  IF visit = <<>> THEN [err |-> "", classes |-> classes]
  ELSE LET next(r) == IF r.err # "" THEN r
                      ELSE resolveClasses(c, i, Tail(visit), r.classes)
       IN next(resolveClass(c, i, Head(visit)[1], Head(visit)[2], classes))

\* Config.resolve
resolve(c, i, tie, visit) ==
  LET conf(partitions, classes) ==
        IF partitions.err # ""
        THEN [err |-> partitions.err, Partitions |-> <<>>, Classes |-> <<>>]
        ELSE IF classes.err # ""
        THEN [err |-> classes.err, Partitions |-> <<>>, Classes |-> <<>>]
        ELSE [err |-> "", Partitions |-> partitions.conf,
              Classes |-> classes.classes]
  IN conf(resolvePartitions(c, i, tie), resolveClasses(c, i, visit, <<>>))

\* ------------------------------------------------------ control groups

\* RootClassName, RootClassAlias
RootClassName == "system/default"
RootClassAlias == ""

isRootClass(name) == name = RootClassName \/ name = RootClassAlias

unaliasClassName(name) == IF isRootClass(name) THEN RootClassName ELSE name

\* One line of a schemata file: the resource tag and the <<id, value>> pairs.
Line(tag, vals) == [tag |-> tag, vals |-> vals]

\* The cache part of ctrlGroup.configure without the check of a level the
\* system does not support: the allocation is dropped as if it were optional.
configureCatNoRequire(lvl, class, partition, optional, i) ==
  LET line(typ) == catSchemaToStr(class.CATSchema[lvl], typ, partition.CAT[lvl],
                                  i.minBits)
      unified(u) ==
        IF u.err # "" THEN [err |-> u.err, lines |-> <<>>]
        ELSE [err |-> "", lines |-> <<Line(lvl, u.line)>>]
      codeAndData(c, d) ==
        IF c.err # "" THEN [err |-> c.err, lines |-> <<>>]
        ELSE IF d.err # "" THEN [err |-> d.err, lines |-> <<>>]
        ELSE [err |-> "", lines |-> <<Line(lvl \o "CODE", c.line),
                                      Line(lvl \o "DATA", d.line)>>]
  IN
  IF i.unified THEN unified(line("unified"))
  ELSE IF i.cdp THEN codeAndData(line("code"), line("data"))
  ELSE [err |-> "", lines |-> <<>>]

\* The cache part of ctrlGroup.configure for one level: the lines of the
\* level, or the error.
configureCat(lvl, class, partition, optional, i) ==
  LET line(typ) == catSchemaToStr(class.CATSchema[lvl], typ, partition.CAT[lvl],
                                  i.minBits)
      unified(u) ==
        IF u.err # "" THEN [err |-> u.err, lines |-> <<>>]
        ELSE [err |-> "", lines |-> <<Line(lvl, u.line)>>]
      codeAndData(c, d) ==
        IF c.err # "" THEN [err |-> c.err, lines |-> <<>>]
        ELSE IF d.err # "" THEN [err |-> d.err, lines |-> <<>>]
        ELSE [err |-> "", lines |-> <<Line(lvl \o "CODE", c.line),
                                      Line(lvl \o "DATA", d.line)>>]
  IN
  IF i.unified THEN unified(line("unified"))
  ELSE IF i.cdp THEN codeAndData(line("code"), line("data"))
  ELSE IF ~class.CATSchema[lvl].isNil /\ ~optional
  THEN [err |-> lvl \o " cache allocation specified in configuration but not supported by system",
        lines |-> <<>>]
  ELSE [err |-> "", lines |-> <<>>]

\* ctrlGroup.configure: the schemata of the class (L2, L3, MB), written to
\* the schemata file of the group unless empty; or the error.
configure(class, partition, options, i) ==
  LET schemata(l2, l3, mb) ==
        IF l2.err # "" THEN [err |-> l2.err, schemata |-> <<>>]
        ELSE IF l3.err # "" THEN [err |-> l3.err, schemata |-> <<>>]
        ELSE IF mb.err # "" THEN [err |-> mb.err, schemata |-> <<>>]
        ELSE [err |-> "", schemata |-> l2.lines \o l3.lines \o mb.lines]
  IN schemata(
       configureCat("L2", class, partition, options.L2, i.cat.L2),
       configureCat("L3", class, partition, options.L3, i.cat.L3),
       IF mbSupported(i.mb)
       THEN [err |-> "",
             lines |-> <<Line("MB", mbSchemaToStr(class.MBSchema, partition.MB,
                                                  i.mb.mbpsEnabled,
                                                  i.mb.minBandwidth))>>]
       ELSE IF ~class.MBSchema.isNil /\ ~options.MB
       THEN [err |-> "memory bandwidth allocation specified in configuration but not supported by system",
             lines |-> <<>>]
       ELSE [err |-> "", lines |-> <<>>])

\* The resctrlGroupPrefix the control was initialized with, and the prefix
\* of the groups of another user of the resctrl filesystem.
Prefix == "goresctrl."
OtherPrefix == "other."

\* The prefixes DiscoverClasses is called with: of the control, of the
\* other user, none.
NoPrefix == ""
Prefixes == {Prefix, OtherPrefix, NoPrefix}

\* The resctrl root, the directory of the root class.
RootDir == <<"", ".">>

\* The directory of a group, as <<prefix, name>>: its file name is the
\* prefix followed by the name (resctrlGroup.relPath); the root class is the
\* resctrl root itself.
relPath(prefix, name) == IF name = RootClassName THEN RootDir ELSE <<prefix, name>>

\* A directory of the resctrl root: absent, or a group with its tasks.
NoDir == [exists |-> FALSE, tasks |-> 0]
Group(tasks) == [exists |-> TRUE, tasks |-> tasks]

\* strings.HasPrefix of the file name of the directory d.
HasPrefix(d, prefix) == prefix = NoPrefix \/ d[1] = prefix

\* resctrlGroupsFromFs: the group directories of the resctrl root whose file
\* name has the prefix.
resctrlGroupsFromFs(prefix, dirs) ==
  {d \in DOMAIN dirs \ {RootDir} : dirs[d].exists /\ HasPrefix(d, prefix)}

\* classesFromResctrlFsPrefix: the root class and the names of the groups on
\* the filesystem, the prefix cut off; with another prefix than that of the
\* control, the groups of the control are skipped.
classesFromResctrlFsPrefix(prefix, dirs) ==
  {RootClassName} \cup
    {IF prefix = NoPrefix THEN d[1] \o d[2] ELSE d[2] :
       d \in {g \in resctrlGroupsFromFs(prefix, dirs) :
                ~(prefix # Prefix /\ HasPrefix(g, Prefix)
                    /\ (prefix = NoPrefix \/ prefix = Prefix))}}

\* classesFromResctrlFs: with the prefix of the control.
classesFromResctrlFs(dirs) == classesFromResctrlFsPrefix(Prefix, dirs)

\* All orders in which the elements of S can be ranged over.
SetOrders(S) ==
  {s \in [1 .. Cardinality(S) -> S] : \A i, j \in DOMAIN s : s[i] = s[j] => i = j}

\* The first loop of configureResctrl going on after a refusal or a failed
\* removal: the group is left and the pass is not aborted.
RECURSIVE removeStalePastRefusal(_, _, _, _, _, _)
removeStalePastRefusal(order, force, failed, dirs, tracked, removed) ==
  IF order = <<>>
  THEN [err |-> "", fs |-> dirs, classes |-> tracked, removed |-> removed]
  ELSE
    LET name == Head(order)
        path == relPath(Prefix, name)
    IN
    IF (~force /\ dirs[path].tasks > 0) \/ name = failed
    THEN removeStalePastRefusal(Tail(order), force, failed, dirs, tracked, removed)
    ELSE removeStalePastRefusal(Tail(order), force, failed,
                                [dirs EXCEPT ![path] = NoDir],
                                tracked \ {name}, removed \cup {name})

\* The first loop of configureResctrl without the look at the tasks of a
\* group: a group is removed whether force is given or not.
RECURSIVE removeStaleIgnoreTasks(_, _, _, _, _, _)
removeStaleIgnoreTasks(order, force, failed, dirs, tracked, removed) ==
  IF order = <<>>
  THEN [err |-> "", fs |-> dirs, classes |-> tracked, removed |-> removed]
  ELSE
    LET name == Head(order)
        path == relPath(Prefix, name)
    IN
    IF name = failed
    THEN [err |-> "failed to remove resctrl group", fs |-> dirs,
          classes |-> tracked, removed |-> removed]
    ELSE removeStaleIgnoreTasks(Tail(order), force, failed,
                                [dirs EXCEPT ![path] = NoDir],
                                tracked \ {name}, removed \cup {name})

\* The first loop of configureResctrl over the groups to remove, in the
\* order the map is ranged over: a group with tasks is refused without
\* force, os.Remove of the group `failed` fails. removed collects the
\* groups removed.
RECURSIVE removeStale(_, _, _, _, _, _)
removeStale(order, force, failed, dirs, tracked, removed) ==
  IF order = <<>>
  THEN [err |-> "", fs |-> dirs, classes |-> tracked, removed |-> removed]
  ELSE
    LET name == Head(order)
        path == relPath(Prefix, name)
    IN
    IF ~force /\ dirs[path].tasks > 0
    THEN [err |-> "refusing to remove non-empty resctrl group", fs |-> dirs,
          classes |-> tracked, removed |-> removed]
    ELSE IF name = failed
    THEN [err |-> "failed to remove resctrl group", fs |-> dirs,
          classes |-> tracked, removed |-> removed]
    ELSE removeStale(Tail(order), force, failed, [dirs EXCEPT ![path] = NoDir],
                     tracked \ {name}, removed \cup {name})

\* newCtrlGroup for a class of the configuration: os.Mkdir of its
\* directory, which may exist.
newCtrlGroup(name, dirs) ==
  IF name = RootClassName \/ dirs[relPath(Prefix, name)].exists THEN dirs
  ELSE [dirs EXCEPT ![relPath(Prefix, name)] = Group(0)]

\* What ctrlGroup.configure gives for every class of a resolved
\* configuration (it reads the configuration and the system only).
RECURSIVE configureEach(_, _, _)
configureEach(names, conf, i) ==
  IF names = {} THEN <<>>
  ELSE LET name == CHOOSE n \in names : TRUE
           class == conf.Classes[name]
       IN (name :> configure(class, conf.Partitions[class.Partition],
                             conf.Options, i))
            @@ configureEach(names \ {name}, conf, i)

configureAll(conf, i) == configureEach(DOMAIN conf.Classes, conf, i)

\* The last loop of configureResctrl going on after a class whose configure
\* fails: the classes after it are reached too and every failure is
\* reported, the first one as the error.
RECURSIVE applyClassesPastFailure(_, _, _, _, _, _)
applyClassesPastFailure(order, configured, dirs, tracked, created, written) ==
  IF order = <<>>
  THEN [err |-> "", fs |-> dirs, classes |-> tracked, created |-> created,
        written |-> written, reached |-> {}, reported |-> {}]
  ELSE
    LET name == Head(order)
        failure(err, rest) ==
          [rest EXCEPT !.err = err, !.reached = @ \cup {name},
                       !.reported = @ \cup {name}]
        success(rest) == [rest EXCEPT !.reached = @ \cup {name}]
        configureIn(dirs1, r) ==
          IF r.err # ""
          THEN failure(r.err,
                 applyClassesPastFailure(
                   Tail(order), configured, dirs1, tracked \cup {name},
                   IF dirs1 = dirs THEN created ELSE created \cup {name},
                   written))
          ELSE success(
                 applyClassesPastFailure(
                   Tail(order), configured, dirs1, tracked \cup {name},
                   IF dirs1 = dirs THEN created ELSE created \cup {name},
                   IF r.schemata = <<>> THEN written
                   ELSE (name :> r.schemata) @@ written))
    IN configureIn(IF name \in tracked THEN dirs ELSE newCtrlGroup(name, dirs),
                   configured[name])

\* The last loop of configureResctrl over the classes of the configuration,
\* in the order the map is ranged over; configured holds what configure
\* gives for each class. created collects the directories made, written the
\* schemata written, reached the classes the loop came to, reported the
\* classes whose failure the error returned tells of.
RECURSIVE applyClasses(_, _, _, _, _, _)
applyClasses(order, configured, dirs, tracked, created, written) ==
  IF order = <<>>
  THEN [err |-> "", fs |-> dirs, classes |-> tracked, created |-> created,
        written |-> written, reached |-> {}, reported |-> {}]
  ELSE
    LET name == Head(order)
        success(rest) == [rest EXCEPT !.reached = @ \cup {name}]
        configureIn(dirs1, r) ==
          IF r.err # ""
          THEN [err |-> r.err, fs |-> dirs1, classes |-> tracked \cup {name},
                created |-> IF dirs1 = dirs THEN created ELSE created \cup {name},
                written |-> written, reached |-> {name}, reported |-> {name}]
          ELSE success(
                 applyClasses(Tail(order), configured, dirs1, tracked \cup {name},
                              IF dirs1 = dirs THEN created ELSE created \cup {name},
                              IF r.schemata = <<>> THEN written
                              ELSE (name :> r.schemata) @@ written))
    IN configureIn(IF name \in tracked THEN dirs ELSE newCtrlGroup(name, dirs),
                   configured[name])

\* A monitoring group is <<class, name>>: the directory of that name, with
\* the prefix of the control, under mon_groups of the group of the class.
\* mon.fs holds the directories with their tasks, mon.groups the monitoring
\* groups the ctrlGroup of the class holds (monGroups) with their
\* annotations.
NoAnnotations == ""
NoMonGroup == <<>>

\* monGroupsFromResctrlFs for the new ctrlGroups of the classes names: the
\* monitoring groups on the filesystem are added to groups, without
\* annotations.
monGroupsFromResctrlFs(groups, names, mdirs) ==
  [e \in DOMAIN groups \cup {x \in DOMAIN mdirs : x[1] \in names /\ mdirs[x].exists} |->
     IF e \in DOMAIN groups THEN groups[e] ELSE NoAnnotations]

\* The monitoring groups of the ctrlGroups that stay classes of the control.
monGroupsOf(groups, names) ==
  [e \in {x \in DOMAIN groups : x[1] \in names} |-> groups[e]]

\* os.Remove of the groups removed: their monitoring groups go with them.
removeMonDirs(mdirs, removed) ==
  [e \in DOMAIN mdirs |-> IF e[1] \in removed THEN NoDir ELSE mdirs[e]]

\* pruneMonGroups keeping no monitoring group, whatever its tasks.
RECURSIVE pruneMonGroupsAll(_, _, _, _, _)
pruneMonGroupsAll(order, failed, mdirs, groups, pruned) ==
  IF order = <<>>
  THEN [err |-> "", fs |-> mdirs, groups |-> groups, pruned |-> pruned]
  ELSE
    LET e == Head(order) IN
    IF e \notin DOMAIN groups
    THEN pruneMonGroupsAll(Tail(order), failed, mdirs, groups, pruned)
    ELSE IF e = failed
    THEN [err |-> "failed to remove monitoring group", fs |-> mdirs,
          groups |-> groups, pruned |-> pruned]
    ELSE pruneMonGroupsAll(Tail(order), failed, [mdirs EXCEPT ![e] = NoDir],
                           [x \in DOMAIN groups \ {e} |-> groups[x]],
                           pruned \cup {e})

\* control.pruneMonGroups and ctrlGroup.pruneMonGroups: the monitoring
\* groups the classes hold are ranged over in some order; one without tasks
\* is removed from the filesystem and from monGroups (DeleteMonGroup);
\* os.Remove of the group `failed` fails.
RECURSIVE pruneMonGroups(_, _, _, _, _)
pruneMonGroups(order, failed, mdirs, groups, pruned) ==
  IF order = <<>>
  THEN [err |-> "", fs |-> mdirs, groups |-> groups, pruned |-> pruned]
  ELSE
    LET e == Head(order) IN
    IF e \notin DOMAIN groups \/ mdirs[e].tasks > 0
    THEN pruneMonGroups(Tail(order), failed, mdirs, groups, pruned)
    ELSE IF e = failed
    THEN [err |-> "failed to remove monitoring group", fs |-> mdirs,
          groups |-> groups, pruned |-> pruned]
    ELSE pruneMonGroups(Tail(order), failed, [mdirs EXCEPT ![e] = NoDir],
                        [x \in DOMAIN groups \ {e} |-> groups[x]],
                        pruned \cup {e})

\* CreateMonGroup giving a monitoring group held already the annotations
\* of the new call.
createMonGroupOverwrite(mon, class, name, annotations, parentExists, fails) ==
  LET e == <<class, name>>
      called(err, held, returned, groups) ==
        [op |-> "create", class |-> class, name |-> name,
         annotations |-> annotations, err |-> err, held |-> held,
         returned |-> returned, same |-> groups = mon.groups, removed |-> {}]
      overwritten(groups) ==
        [fs |-> mon.fs, groups |-> groups,
         call |-> called("", TRUE, annotations, groups)]
      added(groups) ==
        [fs |-> [mon.fs EXCEPT ![e] = IF @.exists THEN @ ELSE Group(0)],
         groups |-> groups, call |-> called("", FALSE, annotations, groups)]
  IN
  IF e \in DOMAIN mon.groups
  THEN overwritten([mon.groups EXCEPT ![e] = annotations])
  ELSE IF fails \/ ~parentExists
  THEN [mon EXCEPT !.call = called("failed to create new monitoring group",
                                   FALSE, NoAnnotations, mon.groups)]
  ELSE added((e :> annotations) @@ mon.groups)

\* ctrlGroup.CreateMonGroup with newMonGroup: a monitoring group the class
\* holds is returned as it is; otherwise its directory is made (os.Mkdir,
\* which may find it there, or fails) and the class holds it with the
\* annotations given. call tells of the call: whether the group was held,
\* the annotations of the group returned, whether the groups held and
\* their annotations are the same as before.
createMonGroup(mon, class, name, annotations, parentExists, fails) ==
  LET e == <<class, name>>
      called(err, held, returned, groups) ==
        [op |-> "create", class |-> class, name |-> name,
         annotations |-> annotations, err |-> err, held |-> held,
         returned |-> returned, same |-> groups = mon.groups, removed |-> {}]
      added(groups) ==
        [fs |-> [mon.fs EXCEPT ![e] = IF @.exists THEN @ ELSE Group(0)],
         groups |-> groups, call |-> called("", FALSE, annotations, groups)]
  IN
  IF e \in DOMAIN mon.groups
  THEN [mon EXCEPT !.call = called("", TRUE, mon.groups[e], mon.groups)]
  ELSE IF fails \/ ~parentExists
  THEN [mon EXCEPT !.call = called("failed to create new monitoring group",
                                   FALSE, NoAnnotations, mon.groups)]
  ELSE added((e :> annotations) @@ mon.groups)

\* ctrlGroup.DeleteMonGroup: for a name the class does not hold, mg is the
\* nil *monGroup and the arguments of the warning evaluate mg.path(""), a nil
\* pointer dereference; for one it holds, the directory is removed
\* (groupRemoveFunc, which fails for a missing directory) and the group is
\* deleted from monGroups. call tells of the call: whether the group was
\* held, the directories removed, whether the groups held are as before.
deleteMonGroup(mon, class, name, fails) ==
  LET e == <<class, name>>
      called(err, held, groups, removed) ==
        [op |-> "delete", class |-> class, name |-> name,
         annotations |-> NoAnnotations, err |-> err, held |-> held,
         returned |-> NoAnnotations, same |-> groups = mon.groups,
         removed |-> removed]
      deleted(groups) ==
        [fs |-> [mon.fs EXCEPT ![e] = NoDir], groups |-> groups,
         call |-> called("", TRUE, groups, {e})]
  IN
  IF e \notin DOMAIN mon.groups
  THEN [mon EXCEPT !.call = called("panic: nil pointer dereference", FALSE,
                                   mon.groups, {})]
  ELSE IF fails \/ ~mon.fs[e].exists
  THEN [mon EXCEPT !.call = called("failed to remove monitoring group", TRUE,
                                   mon.groups, {})]
  ELSE deleted([x \in DOMAIN mon.groups \ {e} |-> mon.groups[x]])

\* The groups to remove with no look at the configuration: every group of
\* the prefix but the root class is removed, and made again when the
\* configuration has it.
staleGroupsAll(conf, dirs) ==
  {name \in classesFromResctrlFs(dirs) : ~isRootClass(name)}

\* The groups to remove without the exception of the root class.
staleGroupsWithRoot(conf, dirs) ==
  {name \in classesFromResctrlFs(dirs) : name \notin DOMAIN conf.Classes}

\* The groups configureResctrl removes: on the filesystem with the prefix,
\* not the root class, not a class of the configuration.
staleGroups(conf, dirs) ==
  {name \in classesFromResctrlFs(dirs) :
     ~isRootClass(name) /\ name \notin DOMAIN conf.Classes}

\* control.configureResctrl. rmOrder is the order in which the first loop
\* reaches the groups to remove, cfgOrder the order in which the last loop
\* reaches the classes of the configuration, monOrder the order in which
\* pruneMonGroups reaches the monitoring groups.
configureResctrl(conf, configured, force, dirs, tracked, pfx, mon, rmOrder, failed, cfgOrder, monOrder, monFailed) ==
  LET stays(rm, name) ==
        /\ name \in rm.classes
        /\ \/ isRootClass(name)
           \/ name \in DOMAIN conf.Classes /\ pfx[name] = Prefix
      staying(rm) == {name \in tracked : stays(rm, name)} \cup {RootClassName}
      pruned(rm, ap, pr) ==
        [err |-> pr.err, fs |-> ap.fs, classes |-> ap.classes,
         prefixes |-> [name \in ap.classes |->
                         IF stays(rm, name) THEN pfx[name] ELSE Prefix],
         mon |-> [fs |-> pr.fs, groups |-> pr.groups], pruned |-> pr.pruned,
         removed |-> rm.removed, created |-> ap.created, written |-> ap.written,
         reached |-> ap.reached, reported |-> ap.reported]
      applied(rm, ap, mdirs, groups) ==
        IF ap.err # ""
        THEN pruned(rm, ap, [err |-> ap.err, fs |-> mdirs, groups |-> groups,
                             pruned |-> {}])
        ELSE pruned(rm, ap, pruneMonGroups(monOrder, monFailed, mdirs, groups, {}))
      renewed(rm, ap, mdirs) ==
        applied(rm, ap, mdirs,
                monGroupsFromResctrlFs(monGroupsOf(mon.groups, staying(rm)),
                                       ap.classes \ staying(rm), mdirs))
      kept(rm) ==
        IF rm.err # ""
        THEN [err |-> rm.err, fs |-> rm.fs, classes |-> rm.classes,
              prefixes |-> [name \in rm.classes |-> pfx[name]],
              mon |-> [fs |-> removeMonDirs(mon.fs, rm.removed),
                       groups |-> monGroupsOf(mon.groups, rm.classes)],
              pruned |-> {},
              removed |-> rm.removed, created |-> {}, written |-> <<>>,
              reached |-> {}, reported |-> {}]
        ELSE renewed(rm,
                     applyClasses(cfgOrder, configured, rm.fs, staying(rm), {}, <<>>),
                     removeMonDirs(mon.fs, rm.removed))
  IN kept(removeStale(rmOrder, force, failed, dirs, tracked, {}))

\* The orders in which the loops of resolveClasses can reach the classes of
\* the configuration c: the partitions in any order, the classes of a
\* partition in any order.
RECURSIVE visitOf(_, _)
visitOf(order, per) ==
  IF order = <<>> THEN <<>>
  ELSE [j \in 1 .. Len(per[Head(order)]) |-> <<Head(order), per[Head(order)][j]>>]
         \o visitOf(Tail(order), per)

Visits(c) ==
  LET n == Len(c.Partitions)
      orders(p) == SetOrders(DOMAIN c.Partitions[p].Classes)
  IN {visitOf(order, per) :
        order \in Orders(n),
        per \in {f \in [1 .. n -> UNION {orders(p) : p \in 1 .. n}] :
                   \A p \in 1 .. n : f[p] \in orders(p)}}

\* No group: os.Remove fails for none.
NoName == "-"

\* The outcome of control.setConfig that mutated nothing.
Unmutated(stage, err, dirs, tracked, pfx, mon) ==
  [stage |-> stage, err |-> err, fs |-> dirs, classes |-> tracked,
   prefixes |-> pfx, mon |-> mon, pruned |-> {},
   stale |-> <<>>, removed |-> {}, created |-> {},
   written |-> <<>>, reached |-> {}, reported |-> {}]

\* The monitoring groups on the filesystem.
monGroupsOnFs(mdirs) == {e \in DOMAIN mdirs : mdirs[e].exists}

\* The outcomes of configureResctrl for a resolved configuration, with the
\* filesystem (fs) and the classes of the control it leaves, the groups it
\* found to remove with their tasks (stale) and what it removed, created
\* and wrote. The outcomes differ by the orders in which Go ranges over the
\* maps and by the group whose removal fails, if any.
reconcile(res, force, dirs, tracked, pfx, mon) ==
  LET outcome(stale, r) ==
        [stage |-> IF r.err = "" THEN "" ELSE "resctrl configuration failed",
         err |-> r.err, fs |-> r.fs, classes |-> r.classes,
         prefixes |-> r.prefixes, mon |-> r.mon, pruned |-> r.pruned,
         stale |-> [name \in stale |-> dirs[relPath(Prefix, name)].tasks],
         removed |-> r.removed, created |-> r.created, written |-> r.written,
         reached |-> r.reached, reported |-> r.reported]
      outcomes(stale) ==
        {outcome(stale, configureResctrl(res.conf, res.configured, force, dirs,
                                         tracked, pfx, mon, rmOrder, failed,
                                         cfgOrder, monOrder, monFailed)) :
           rmOrder \in SetOrders(stale), failed \in {NoName} \cup stale,
           cfgOrder \in SetOrders(DOMAIN res.conf.Classes),
           monOrder \in SetOrders(monGroupsOnFs(mon.fs)),
           monFailed \in {NoMonGroup} \cup monGroupsOnFs(mon.fs)}
  IN outcomes(staleGroups(res.conf, dirs))

\* control.setConfig with the groups removed before the configuration is
\* resolved: a configuration that does not resolve has left no class, and
\* the groups on the filesystem are removed all the same.
setConfigRemoveFirst(force, dirs, tracked, pfx, mon, resolutions) ==
  LET outcome(err, stale, rm) ==
        [stage |-> "invalid configuration", err |-> err,
         fs |-> rm.fs, classes |-> rm.classes,
         prefixes |-> [name \in rm.classes |-> pfx[name]],
         mon |-> [fs |-> removeMonDirs(mon.fs, rm.removed),
                  groups |-> monGroupsOf(mon.groups, rm.classes)],
         pruned |-> {},
         stale |-> [name \in stale |-> dirs[relPath(Prefix, name)].tasks],
         removed |-> rm.removed, created |-> {}, written |-> <<>>,
         reached |-> {}, reported |-> {}]
      outcomes(err, stale) ==
        {outcome(err, stale, removeStale(rmOrder, force, NoName, dirs, tracked, {})) :
           rmOrder \in SetOrders(stale)}
  IN
  UNION {
    IF res.err # ""
    THEN outcomes(res.err,
                  {name \in classesFromResctrlFs(dirs) : ~isRootClass(name)})
    ELSE reconcile(res, force, dirs, tracked, pfx, mon) :
    res \in resolutions}

\* control.setConfig: every outcome it can have. resolutions holds the
\* outcomes of newConfig.resolve(): a configuration that does not resolve
\* is refused before anything is changed.
setConfig(force, dirs, tracked, pfx, mon, resolutions) ==
  UNION {
    IF res.err # ""
    THEN {Unmutated("invalid configuration", res.err, dirs, tracked, pfx, mon)}
    ELSE reconcile(res, force, dirs, tracked, pfx, mon) :
    res \in resolutions}

\* control.discoverFromResctrl: the classes of the control that are not on
\* the filesystem under the prefix, or have another prefix, are dropped but
\* for the root class; the classes found are added.
discoverFromResctrl(prefix, dirs, tracked, pfx, mon, monOrder, monFailed) ==
  LET pruned(fromFs, kept, pr) ==
        [err |-> pr.err, classes |-> kept \cup fromFs,
         prefixes |-> [name \in kept \cup fromFs |->
                         IF name \in kept THEN pfx[name] ELSE prefix],
         mon |-> [fs |-> pr.fs, groups |-> pr.groups]]
      merged(fromFs, kept) ==
        pruned(fromFs, kept,
               pruneMonGroups(monOrder, monFailed, mon.fs,
                              monGroupsFromResctrlFs(
                                monGroupsOf(mon.groups, kept),
                                IF prefix = Prefix THEN fromFs \ kept ELSE {},
                                mon.fs),
                              {}))
      stays(fromFs) ==
        merged(fromFs, {name \in tracked :
                          \/ isRootClass(name)
                          \/ name \in fromFs /\ pfx[name] = prefix})
  IN stays(classesFromResctrlFsPrefix(prefix, dirs))

\* The outcomes of Config.resolve for a configuration on a system, each
\* with what configure gives for the classes of the resolved configuration.
\* The outcomes differ by the order of equal requests in the sort and by
\* the order in which the classes are reached.
resolveOutcomes(c, i) ==
  LET configured(err, conf) ==
        [err |-> err, conf |-> conf,
         configured |-> IF err = "" THEN configureAll(conf, i) ELSE <<>>]
      outcome(r) ==
        configured(r.err, [Options |-> c.Options, Partitions |-> r.Partitions,
                           Classes |-> r.Classes])
  IN {outcome(resolve(c, i, tie, visit)) :
        tie \in Orders(Len(c.Partitions)), visit \in Visits(c)}

\* ------------------------------------------------------------------ state

VARIABLES
  pc,     \* position of the run: "init", "resolved", ...
  hw,     \* capability descriptor used by the resolver (info)
  preq,   \* partition requests for one cache id, in partition name order
  pres,   \* result of resolving preq
  cbase,  \* catSchema granted to a class's partition
  creq,   \* catSchema requested by the class
  cres,   \* per sub-type, the schemata line catSchema.ToStr gives the class
  mbin,   \* raw mbAllocation of two partitions and of a class of one of them
  mbout,  \* the resolved MB schemas and the MB line written for the class
  fs,     \* the group directories of the resctrl root, with their tasks
  classes,\* the names of the classes of the control (c.classes)
  call,   \* the last call of SetConfig: arguments, error, what it changed
  resolved,\* per configuration of the catalogue, the outcomes of resolving it
  prefixes,\* per class of the control, the prefix of its group (cls.prefix)
  conf,   \* the configuration the control holds (c.conf, c.rawConf)
  mon,    \* the monitoring groups: on the filesystem, held by the classes
  tasks,  \* the process ids assigned through a group's tasks file, in order
  pidcall,\* the last call of AddPids: arguments, outcomes, error
  prior   \* the call of SetConfig before the last, and what the last left

vars == <<pc, hw, preq, pres, cbase, creq, cres, mbin, mbout, fs, classes, call,
          resolved, prefixes, conf, mon, tasks, pidcall, prior>>

partVars == <<preq, pres>>
classVars == <<cbase, creq, cres>>
mbVars == <<mbin, mbout>>
ctlVars == <<fs, classes, call, resolved, prefixes, conf, mon>>
pidVars == <<tasks, pidcall>>
histVars == <<prior>>

\* The variables another specification does not use.
PartIdle == preq = <<>> /\ pres = <<>>
ClassIdle == cbase = <<>> /\ creq = <<>> /\ cres = <<>>
MbIdle == mbin = <<>> /\ mbout = <<>>
CtlIdle ==
  /\ fs = <<>> /\ classes = {} /\ call = <<>> /\ resolved = <<>>
  /\ prefixes = <<>> /\ conf = <<>> /\ mon = <<>>
PidIdle == tasks = <<>> /\ pidcall = <<>>
\* Before the first call of SetConfig.
NoPrior == [left |-> <<>>, again |-> FALSE, written |-> <<>>]
HistIdle == prior = NoPrior

\* ------------------------------------- partition resolution: specification

\* Percentages a partition request is drawn from (parseString accepts 0..100).
PctValues == {0, 1, 33, 40, 50, 60, 100}

\* Widths of the hardware cache mask and values of min_cbm_bits.
CbmWidths == {4, 11, 20}
MinBitsValues == {1, 2, 3}

\* Absolute bitmasks a partition request is drawn from: one contiguous run,
\* near bit 0 and at the top of the 64-bit word.
AbsMasks ==
  {Run(0, 1), Run(0, 2), Run(1, 2), Run(2, 3), Run(4, 3),
   Run(61, 3), Run(62, 2), Run(63, 1)}

SeqsUpTo(S, n) == UNION {[1 .. k -> S] : k \in 1 .. n}

UnifiedOnly(a) == CatAlloc(a, Nil, Nil)

\* Requests of one kind for all partitions, and short mixed lists with
\* missing requests, ranges and code/data requests.
PctInputs == SeqsUpTo({UnifiedOnly(Pct(p)) : p \in PctValues}, MaxParts)
AbsInputs == SeqsUpTo({UnifiedOnly(Abs(m)) : m \in AbsMasks}, MaxParts)
MixedInputs ==
  SeqsUpTo({ZeroCatAlloc, UnifiedOnly(Pct(50)), UnifiedOnly(Abs(Run(0, 3))),
            UnifiedOnly(Rng(1, 50)),
            CatAlloc(Pct(50), Pct(40), Pct(60)),
            CatAlloc(Pct(30), Pct(60), Pct(20)),
            CatAlloc(Abs(Run(0, 4)), Abs(Run(0, 3)), Pct(50)),
            CatAlloc(Abs(Run(4, 4)), Abs(Run(3, 3)), Abs(Run(0, 3)))}, 2)

\* What parseString guarantees of an absolute request.
ParsedOk(a, minBits) == a.kind = "abs" => OnesCount(a.mask) >= minBits

PartInit ==
  /\ pc = "init"
  /\ hw \in [minBits : MinBitsValues, cbmBits : CbmWidths]
  /\ preq \in PctInputs \cup AbsInputs \cup MixedInputs
  /\ \A p \in 1 .. Len(preq) : \A t \in {"unified", "code", "data"} :
       ParsedOk(get(preq[p], t), hw.minBits)
  /\ pres = <<>>
  /\ ClassIdle /\ MbIdle /\ PidIdle /\ CtlIdle /\ HistIdle

\* cacheResolver.resolveID on the requests, with any tie order of the sort.
ResolvePartitions ==
  /\ pc = "init"
  /\ \E tie \in Orders(Len(preq)) :
       pres' = resolveID(preq, hw.minBits, hw.cbmBits, tie)
  /\ pc' = "resolved"
  /\ UNCHANGED <<hw, preq, classVars, mbVars, pidVars, ctlVars, histVars>>

PartNext == ResolvePartitions

SpecPart == PartInit /\ [][PartNext]_vars

\* ----------------------------------------- partition resolution: claims

Parts == 1 .. Len(preq)

Resolved == pc = "resolved" /\ pres.err = ""

\* Every partition asks for a plain percentage of sub-type typ.
AllPct(typ) == \A p \in Parts : get(preq[p], typ).kind = "pct"

\* Every partition asks for an absolute bitmask, unified only.
AllAbsUnified ==
  \A p \in Parts : preq[p].Unified.kind = "abs" /\ preq[p].Code = Nil
                   /\ preq[p].Data = Nil

GrantMask(p, typ) == get(pres.grants[p], typ).mask

RequestsDisjoint ==
  \A p, q \in Parts : p # q => preq[p].Unified.mask \cap preq[q].Unified.mask = {}

\* C2: whenever resolving percentage requests of the partitions succeeds,
\* the granted bitmasks of distinct partitions are pairwise disjoint, each
\* has at least minBits bits, and their union has no more bits than the
\* hardware cache mask.
C2_PctGrantsExclusive ==
  \A typ \in {"unified", "code", "data"} :
    (Resolved /\ AllPct(typ)) =>
      /\ \A p, q \in Parts : p # q => GrantMask(p, typ) \cap GrantMask(q, typ) = {}
      /\ \A p \in Parts : OnesCount(GrantMask(p, typ)) >= hw.minBits
      /\ OnesCount(UNION {GrantMask(p, typ) : p \in Parts}) <= hw.cbmBits

\* Three percentage partitions resolved, one of them rounded up to minBits.
C2_Witness ==
  /\ Resolved /\ AllPct("unified") /\ Len(preq) = 3 /\ hw.minBits = 2
  /\ \E p \in Parts : /\ preq[p].Unified.high = 1
                      /\ OnesCount(GrantMask(p, "unified")) = 2
  /\ \E p \in Parts : OnesCount(GrantMask(p, "unified")) > 2

\* C25: for partitions whose requests are percentages in 0..100, also when
\* the total is 0% or so small that floor(total * cacheBits / 100) is 0,
\* partition resolution ends with a grant for every partition or with an
\* error: no path comes to a division by zero or another arithmetic fault.
C25_PercentResolutionEnds ==
  (pc = "resolved" /\ AllPct("unified")) =>
    /\ pres.err # "panic"
    /\ pres.err = "" => \A p \in Parts : GrantMask(p, "unified") # {}

\* C26: percentage grants are monotone in the request: whenever resolution
\* succeeds and a partition asks for a strictly larger percentage than
\* another, it is granted at least as many bits, for every minBits and
\* cache width.
C26_GrantsMonotone ==
  (Resolved /\ AllPct("unified")) =>
    \A p, q \in Parts :
      preq[p].Unified.high > preq[q].Unified.high =>
        OnesCount(GrantMask(p, "unified")) >= OnesCount(GrantMask(q, "unified"))

\* C3: with absolute requests only, resolution succeeds exactly when the
\* requests are pairwise disjoint, any overlap gives the overlapping
\* partitions error, and on success every grant equals its request.
C3_AbsoluteIffDisjoint ==
  (pc = "resolved" /\ AllAbsUnified) =>
    /\ (pres.err = "") <=> RequestsDisjoint
    /\ ~RequestsDisjoint => pres.err = "overlapping partition allocation"
    /\ pres.err = "" => \A p \in Parts : pres.grants[p] = preq[p]

\* The first and the third of three partitions overlap in bit 63 alone and
\* the resolution failed.
C3_Witness ==
  /\ pc = "resolved" /\ AllAbsUnified /\ Len(preq) = 3
  /\ preq[1].Unified.mask \cap preq[3].Unified.mask = {63}
  /\ preq[1].Unified.mask \cap preq[2].Unified.mask = {}
  /\ preq[2].Unified.mask \cap preq[3].Unified.mask = {}
  /\ pres.err = "overlapping partition allocation"

\* The number of bits granted to the partitions before p in name order.
RECURSIVE BitsBefore(_, _)
BitsBefore(p, typ) ==
  IF p = 1 THEN 0 ELSE BitsBefore(p - 1, typ) + OnesCount(GrantMask(p - 1, typ))

\* Partitions exclusive (60%) and shared (40%), in name order, on a cache
\* mask of 20 bits with minBits 1.
ExclusiveShared ==
  /\ preq = <<UnifiedOnly(Pct(60)), UnifiedOnly(Pct(40))>>
  /\ hw.cbmBits = 20 /\ hw.minBits = 1

\* C11 as stated: the ranges of percentage partitions are laid out from bit
\* 0 upward in ascending order of the requested percentage; exclusive 60%
\* and shared 40% on 20 bits give shared bits 0-7 and exclusive bits 8-19.
C11_LaidOutInSortedOrder ==
  (Resolved /\ AllPct("unified")) =>
    /\ \A p, q \in Parts :
         preq[p].Unified.high < preq[q].Unified.high =>
           msbOne(GrantMask(p, "unified")) < lsbOne(GrantMask(q, "unified"))
    /\ ExclusiveShared =>
         /\ GrantMask(2, "unified") = Run(0, 8)
         /\ GrantMask(1, "unified") = Run(8, 12)

\* C11, amended: the ranges of percentage partitions are laid out from bit
\* 0 upward in the order of the partition names, each range starting where
\* the range of the partition before it ends; exclusive 60% and shared 40%
\* on 20 bits give exclusive bits 0-11 and shared bits 12-19.
C11_LaidOutInNameOrder ==
  \A typ \in {"unified", "code", "data"} :
    (Resolved /\ AllPct(typ)) =>
      /\ \A p \in Parts :
           GrantMask(p, typ) = Run(BitsBefore(p, typ), OnesCount(GrantMask(p, typ)))
      /\ (ExclusiveShared /\ typ = "unified") =>
           /\ GrantMask(1, typ) = Run(0, 12)
           /\ GrantMask(2, typ) = Run(12, 8)

\* Exclusive and shared resolved: exclusive, the larger request and the
\* first name, has the low twelve bits.
C11_Witness ==
  /\ Resolved /\ ExclusiveShared
  /\ GrantMask(1, "unified") = Run(0, 12)
  /\ GrantMask(2, "unified") = Run(12, 8)

\* Some partition has a request of the type and some partition has none.
Inconsistent(typ) ==
  /\ \E p \in 1 .. Len(preq) : get(preq[p], typ) # Nil
  /\ \E p \in 1 .. Len(preq) : get(preq[p], typ) = Nil

\* C18: when for some type a partition has a request and another has none,
\* the resolution fails, whichever of them is first in name order; it
\* fails for a missing request only when that is so for some type.
C18_InconsistentRequestsFail ==
  pc = "resolved" =>
    /\ (\E typ \in {"unified", "code", "data"} : Inconsistent(typ)) => pres.err # ""
    /\ Inconsistent("unified") => pres.err = "missing allocation request"
    /\ pres.err = "missing allocation request" =>
         \E typ \in {"unified", "code", "data"} : Inconsistent(typ)

\* The first partition in name order has no request, the second has one:
\* the resolution failed for the missing request.
C18_Witness ==
  /\ pc = "resolved" /\ Len(preq) = 2
  /\ get(preq[1], "unified") = Nil /\ get(preq[2], "unified") # Nil
  /\ pres.err = "missing allocation request"

\* ------------------------------------------- class level: specification

\* Bitmasks granted to a partition: one contiguous run (resolveRelative
\* composes runs, parseString accepts only runs as absolute requests).
BaseMasks ==
  {Run(lo, n) : lo \in {0, 3, 8}, n \in {1, 2, 3, 4, 8, 12, 20}}
    \cup {Run(0, 64), Run(32, 32), Run(60, 4), Run(63, 1)}

\* What a class may request for one sub-type (as parseString returns it).
ClassSingles ==
  {Pct(p) : p \in {0, 1, 25, 50, 99, 100}}
    \cup {Rng(0, 50), Rng(1, 1), Rng(50, 100), Rng(100, 100), Rng(1, 100),
          Rng(34, 66)}
    \cup {Abs(Run(lo, n)) : lo \in {0, 1, 2}, n \in {1, 2, 4}}
    \cup {Abs(Run(60, 4)), Abs(Run(0, 64))}

ClassAllocs ==
  {UnifiedOnly(a) : a \in ClassSingles}
    \cup {CatAlloc(Pct(100), Pct(50), Rng(50, 100)),
          CatAlloc(Pct(50), Abs(Run(0, 2)), Pct(100)),
          CatAlloc(Abs(Run(0, 1)), Pct(100), Abs(Run(1, 3)))}

BaseAllocs ==
  {UnifiedOnly(Abs(b)) : b \in BaseMasks}
    \cup {CatAlloc(Abs(Run(0, 8)), Abs(Run(8, 12)), Abs(Run(4, 4))),
          CatAlloc(Abs(Run(8, 12)), Abs(Run(0, 3)), Abs(Run(3, 17)))}

\* The second cache id takes its values from these.
BaseAllocsId1 == {UnifiedOnly(Abs(Run(0, 8))), UnifiedOnly(Abs(Run(8, 12))),
                  CatAlloc(Abs(Run(0, 20)), Abs(Run(0, 4)), Abs(Run(4, 16)))}
ClassAllocsId1 == {UnifiedOnly(Pct(100)), UnifiedOnly(Rng(50, 100)),
                   UnifiedOnly(Abs(Run(0, 4)))}

AllocOk(a, minBits) ==
  \A t \in {"unified", "code", "data"} : ParsedOk(get(a, t), minBits)

ClassInit ==
  /\ pc = "init"
  /\ hw \in [minBits : MinBitsValues, cbmBits : {20}]
  /\ \E b0 \in BaseAllocs, b1 \in BaseAllocsId1 :
       /\ AllocOk(b0, hw.minBits) /\ AllocOk(b1, hw.minBits)
       /\ cbase = Schema(0 :> b0 @@ 1 :> b1)
  /\ \/ creq = NilSchema
     \/ \E c0 \in ClassAllocs, c1 \in ClassAllocsId1 :
          /\ AllocOk(c0, hw.minBits) /\ AllocOk(c1, hw.minBits)
          /\ creq = Schema(0 :> c0 @@ 1 :> c1)
  /\ cres = <<>>
  /\ PartIdle /\ MbIdle /\ PidIdle /\ CtlIdle /\ HistIdle

\* catSchema.ToStr of the class for each sub-type.
ClassToStr ==
  /\ pc = "init"
  /\ cres' = [typ \in {"unified", "code", "data"} |->
                catSchemaToStr(creq, typ, cbase, hw.minBits)]
  /\ pc' = "written"
  /\ UNCHANGED <<hw, cbase, creq, partVars, mbVars, pidVars, ctlVars, histVars>>

ClassNext == ClassToStr

SpecClass == ClassInit /\ [][ClassNext]_vars

\* ------------------------------------------------- class level: claims

CacheIds == DOMAIN cbase.alloc

\* The bitmask written for cache id `id` in the line of sub-type typ.
Written(typ, id) ==
  LET i == CHOOSE i \in 1 .. Len(cres[typ].line) : cres[typ].line[i][1] = id
  IN cres[typ].line[i][2]

BaseOf(typ, id) == getEffective(cbase.alloc[id], typ).mask

\* C4: every bitmask written to a class's schemata is a bitwise subset of
\* the bitmask granted to the class's partition for the same cache id and
\* effective sub-type, whatever the kind of the class's request.
C4_ClassWithinPartition ==
  \A typ \in {"unified", "code", "data"} :
    (pc = "written" /\ cres[typ].err = "") =>
      /\ Len(cres[typ].line) = Cardinality(CacheIds)
      /\ \A id \in CacheIds : Written(typ, id) \subseteq BaseOf(typ, id)

\* An absolute class request was shifted into a wider partition mask.
C4_Witness ==
  /\ pc = "written" /\ ~creq.isNil
  /\ creq.alloc[0].Unified = Abs(Run(1, 2))
  /\ BaseOf("unified", 0) = Run(8, 12)
  /\ cres["unified"].err = ""
  /\ Written("unified", 0) = Run(9, 2)

\* The class asks for 100% of every sub-type of cache id `id`.
Asks100(id) == creq.alloc[id] = UnifiedOnly(Pct(100))

\* C7: on a partition mask of one contiguous run of at least minBits bits,
\* a class that requests 100% and a class with no cache request both get
\* exactly the partition's mask, for every cache id.
C7_FullShareIsPartitionMask ==
  \A typ \in {"unified", "code", "data"} :
    (pc = "written" /\ (creq.isNil \/ \A id \in CacheIds : Asks100(id))) =>
      /\ cres[typ].err = ""
      /\ \A id \in CacheIds : Written(typ, id) = BaseOf(typ, id)

\* A class asking 100% on a 12 bit partition mask at bit 8 got that mask.
C7_Witness ==
  /\ pc = "written" /\ ~creq.isNil
  /\ \A id \in CacheIds : Asks100(id)
  /\ BaseOf("unified", 0) = Run(8, 12)
  /\ cres["unified"].err = "" /\ Written("unified", 0) = Run(8, 12)

\* The class's request for sub-type typ of cache id `id`.
RequestOf(typ, id) == getEffective(creq.alloc[id], typ)

\* The mask shifted left by n as an unbounded integer: no bit is lost.
ShiftedUnbounded(m, n) == {b + n : b \in m}

\* The absolute request for the first cache id, shifted to the lowest bit of
\* the partition's mask, has a bit outside the partition's mask.
OutsideBase(typ) ==
  /\ pc = "written" /\ ~creq.isNil /\ RequestOf(typ, 0).kind = "abs"
  /\ ~(ShiftedUnbounded(RequestOf(typ, 0).mask, lsbOne(BaseOf(typ, 0)))
         \subseteq BaseOf(typ, 0))

\* C22: an absolute class request that, shifted left by the index of the
\* lowest set bit of the partition's mask as an unbounded integer, has a bit
\* outside that mask fails with 'does not fit basemask', also when the shift
\* pushes bits past bit 63; a successful Overlay keeps the number of bits.
C22_AbsoluteOutsideBaseFails ==
  \A typ \in {"unified", "code", "data"} :
    /\ OutsideBase(typ) => cres[typ].err = "does not fit basemask"
    /\ (pc = "written" /\ ~creq.isNil /\ RequestOf(typ, 0).kind = "abs"
          /\ cres[typ].err = "") =>
         OnesCount(Written(typ, 0)) = OnesCount(RequestOf(typ, 0).mask)

\* ------------------------------------ percentage ranges: specification

\* The limits of the percentage ranges and the partition masks they are
\* laid over: runs of every width up to 12 bits and of 20 and 64 bits.
RangeLimits == {1, 2, 3, 10, 25, 33, 34, 50, 66, 67, 99, 100}
RangeRequests ==
  {Pct(p) : p \in RangeLimits}
    \cup {Rng(r[1], r[2]) : r \in {x \in RangeLimits \X RangeLimits : x[1] <= x[2]}}
RangeBases ==
  {Run(lo, n) : lo \in {0, 3, 44}, n \in (1 .. 12) \cup {20}} \cup {Run(0, 64)}

\* A class with one request for the one cache id of its partition.
RangeInit ==
  /\ pc = "init"
  /\ hw \in [minBits : 1 .. 4, cbmBits : {20}]
  /\ \E base \in RangeBases :
       /\ OnesCount(base) >= hw.minBits
       /\ cbase = Schema(0 :> UnifiedOnly(Abs(base)))
  /\ \E a \in RangeRequests : creq = Schema(0 :> UnifiedOnly(a))
  /\ cres = <<>>
  /\ PartIdle /\ MbIdle /\ PidIdle /\ CtlIdle /\ HistIdle

SpecRange == RangeInit /\ [][ClassNext]_vars

\* ------------------------------------------ percentage ranges: claims

\* The limits of the request: a plain percentage p is the range 1..p.
LowOf(a) == IF a.kind = "pct" THEN 1 ELSE a.low
BitOf(p, width) == ((p - 1) * width) \div 100

\* The run the claim gives a request on a base mask: the proportional bits,
\* widened to minBits at the low end first and then at the high end.
ClaimedRun(a, base, minBits) ==
  LET width == OnesCount(base)
      lsb == BitOf(LowOf(a), width)
      n == BitOf(a.high, width) - lsb + 1
      lsbWide == IF n >= minBits THEN lsb
                 ELSE IF minBits - n <= lsb THEN lsb - (minBits - n) ELSE 0
  IN Run(lsbOne(base) + lsbWide, IF n >= minBits THEN n ELSE minBits)

\* C23: for every percentage range low..high with 1 <= low <= high <= 100
\* (a percentage p being 1..p) and every base mask of one contiguous run of
\* at least minBits bits, Overlay does not fail and returns one contiguous
\* run inside the base of max(minBits, floor((high-1)*W/100) -
\* floor((low-1)*W/100) + 1) bits, W being the width of the base, widened at
\* the low end first and then at the high end.
C23_RangeOverlayWidened ==
  pc = "written" =>
    /\ cres["unified"].err = ""
    /\ Written("unified", 0) =
         ClaimedRun(RequestOf("unified", 0), BaseOf("unified", 0), hw.minBits)
    /\ Written("unified", 0) \subseteq BaseOf("unified", 0)

\* 50% alone on a 4 bit mask at bit 3 with min_cbm_bits 3: the one bit is
\* widened by one bit at the low end and one at the high end; and 1% alone.
C23_Witness ==
  /\ pc = "written" /\ hw.minBits = 3
  /\ RequestOf("unified", 0) = Rng(50, 50)
  /\ BaseOf("unified", 0) = Run(3, 4)
  /\ Written("unified", 0) = Run(3, 3)

\* ------------------------------------- memory bandwidth: specification

MbIds == {0, 1}

\* Values of min_bandwidth.
MinBandwidths == {1, 10, 20}

MbpsValues == {U32(0, 0), U32(0, 500), U32(0, 750), U32(0, 1000), U32(0, 1500),
               U32(1, 0), MaxUint32}

\* mbAllocation values of the configuration.
MbRaws ==
  {RawNil, RawScalar(MbString)}
    \cup {RawScalar(MbList(<<TokPct(n)>>)) : n \in {0, 1, 5, 50, 100, 127, 128}}
    \cup {RawScalar(MbList(<<TokMbps(v)>>)) : v \in MbpsValues}
    \cup {RawScalar(MbList(<<TokPct(50), TokMbps(U32(0, 1000))>>)),
          RawScalar(MbList(<<TokNaN("MBps"), TokPct(30)>>)),
          RawMap(MbList(<<TokMbps(U32(0, 1000)), TokPct(100)>>),
                 0 :> MbList(<<TokNonString, TokOther, TokMbps(U32(0, 500)),
                               TokPct(7)>>)),
          RawMapNoAll(1 :> MbList(<<TokPct(66), TokMbps(U32(0, 750))>>)),
          RawMapNoAll(0 :> MbList(<<TokPct(40), TokMbps(U32(0, 500))>>)
                        @@ 1 :> MbList(<<TokPct(5)>>))}

MbInit ==
  /\ pc = "init"
  /\ hw \in [mbpsEnabled : BOOLEAN, minBandwidth : MinBandwidths, ids : {MbIds}]
  /\ mbin \in [parts : [1 .. 2 -> MbRaws], cls : MbRaws, of : 1 .. 2]
  /\ mbout = <<>>
  /\ PartIdle /\ ClassIdle /\ CtlIdle /\ PidIdle /\ HistIdle

\* Config.resolve and ctrlGroup.configure, memory bandwidth only: the
\* partitions, then the class, then the MB line of the class.
ResolveMB ==
  /\ pc = "init"
  /\ LET parts == resolveMBPartitions(mbin.parts, hw.mbpsEnabled,
                                      hw.minBandwidth, hw.ids)
         cls == resolveClassMB(mbin.cls, mbin.parts[mbin.of], hw.mbpsEnabled,
                               hw.ids)
     IN mbout' =
          IF parts.err # "" THEN [err |-> parts.err, parts |-> <<>>, line |-> <<>>]
          ELSE IF cls.err # "" THEN [err |-> cls.err, parts |-> <<>>, line |-> <<>>]
          ELSE [err |-> "", parts |-> parts.mb,
                line |-> mbSchemaToStr(cls.mb, parts.mb[mbin.of],
                                       hw.mbpsEnabled, hw.minBandwidth)]
  /\ pc' = "written"
  /\ UNCHANGED <<hw, mbin, partVars, classVars, ctlVars, pidVars, histVars>>

MbNext == ResolveMB

SpecMB == MbInit /\ [][MbNext]_vars

\* ------------------------------------------ memory bandwidth: claims

\* The list given for cache id `id` by a raw mbAllocation.
RawListOf(raw, id) ==
  IF raw.shape = "map" /\ id \in DOMAIN raw.per THEN raw.per[id].toks
  ELSE raw.all.toks

\* The number of the first element of the list with the given unit.
FirstOf(toks, unit) == toks[Min({k \in 1 .. Len(toks) : toks[k].unit = unit})]

MbWritten == pc = "written" /\ mbout.err = ""

\* The ids of the MB line and the value written for an id.
MbLineIds == {mbout.line[k][1] : k \in 1 .. Len(mbout.line)}
MbLineValue(id) ==
  mbout.line[CHOOSE k \in 1 .. Len(mbout.line) : mbout.line[k][1] = id][2]

MaxOf(a, b) == IF a >= b THEN a ELSE b

\* C9: in percentage mode the value written for a class and a cache id is
\* max(minBandwidth, floor(classPct * partitionValue / 100)), with classPct
\* 100 for a class without request and partitionValue the partition's
\* requested percentage raised to minBandwidth; the value granted to a
\* partition does not depend on the other partitions.
C9_MbPercentValue ==
  (MbWritten /\ ~hw.mbpsEnabled) =>
    /\ MbLineIds = IF mbin.parts[mbin.of].shape = "nil" THEN {} ELSE hw.ids
    /\ \A id \in MbLineIds :
         LET partitionValue ==
               MaxOf(hw.minBandwidth,
                     FirstOf(RawListOf(mbin.parts[mbin.of], id), "%").pct)
             classPct == IF mbin.cls.shape = "nil" THEN 100
                         ELSE FirstOf(RawListOf(mbin.cls, id), "%").pct
         IN /\ mbout.parts[mbin.of][id] = partitionValue
            /\ MbLineValue(id) =
                 MaxOf(hw.minBandwidth, (classPct * partitionValue) \div 100)

\* C27: in percentage mode every value written for a class lies between
\* minBandwidth and 100 and does not exceed the value granted to the class's
\* partition unless it was raised to minBandwidth, for every request the
\* parser accepts for partitions and classes.
C27_MbPercentWithinBounds ==
  (MbWritten /\ ~hw.mbpsEnabled) =>
    \A id \in MbLineIds :
      /\ hw.minBandwidth <= MbLineValue(id) /\ MbLineValue(id) <= 100
      /\ \/ MbLineValue(id) <= mbout.parts[mbin.of][id]
         \/ MbLineValue(id) = hw.minBandwidth

\* Both partitions were granted 100%, and a class asking 50% of a partition
\* that asked 1% was written the minimum bandwidth.
C9_Witness ==
  /\ MbWritten /\ ~hw.mbpsEnabled /\ hw.minBandwidth = 10
  /\ mbin.parts[1] = RawScalar(MbList(<<TokPct(1)>>))
  /\ mbin.parts[2] = RawScalar(MbList(<<TokPct(100)>>))
  /\ mbout.parts[1][0] = 10 /\ mbout.parts[2][0] = 100
  /\ mbin.cls = RawScalar(MbList(<<TokPct(50)>>)) /\ mbin.of = 1
  /\ MbLineValue(0) = 10 /\ MbLineValue(1) = 10

U32Min(a, b) == IF U32Gt(a, b) THEN b ELSE a

\* C10: in MBps mode the value written for a class and a cache id is the
\* smaller of the class's requested MBps (the maximum 32-bit value for a
\* class without request) and the partition's granted MBps, so it never
\* exceeds the partition's granted MBps.
C10_MbMbpsValue ==
  (MbWritten /\ hw.mbpsEnabled) =>
    /\ MbLineIds = IF mbin.parts[mbin.of].shape = "nil" THEN {} ELSE hw.ids
    /\ \A id \in MbLineIds :
         LET granted == FirstOf(RawListOf(mbin.parts[mbin.of], id), "MBps").mbps
             requested == IF mbin.cls.shape = "nil" THEN U32(65535, 65535)
                          ELSE FirstOf(RawListOf(mbin.cls, id), "MBps").mbps
         IN /\ mbout.parts[mbin.of][id] = granted
            /\ MbLineValue(id) = U32Min(requested, granted)
            /\ ~U32Gt(MbLineValue(id), granted)

\* A class asking 1500 MBps of a partition granted 1000 MBps on one cache id
\* and 500 MBps on the other.
C10_Witness ==
  /\ MbWritten /\ hw.mbpsEnabled /\ mbin.of = 1
  /\ mbin.parts[1].shape = "map"
  /\ mbin.cls = RawScalar(MbList(<<TokMbps(U32(0, 1500))>>))
  /\ MbLineValue(0) = U32(0, 500) /\ MbLineValue(1) = U32(0, 1000)

\* ------------------------------------------------- control: specification

\* Most tasks a group is given.
MaxTasks == 1

\* The systems: with L2, L3 and MB allocation; without L2 allocation and
\* with code and data prioritization of L3; with L2 allocation only.
SystemFull ==
  [cat |-> [L2 |-> CatInfo(TRUE, FALSE, {0}, 1, 4),
            L3 |-> CatInfo(TRUE, FALSE, {0}, 2, 8)],
   mb |-> MbInfo(10, {0}, FALSE)]
SystemNoL2 ==
  [cat |-> [L2 |-> CatInfoNone, L3 |-> CatInfo(FALSE, TRUE, {0}, 2, 8)],
   mb |-> MbInfo(10, {0}, FALSE)]
SystemL2Only ==
  [cat |-> [L2 |-> CatInfo(TRUE, FALSE, {0}, 1, 4), L3 |-> CatInfoNone],
   mb |-> MbInfo(0, {}, FALSE)]
Systems == {SystemFull, SystemNoL2, SystemL2Only}

\* Raw allocations of the configurations.
pct(n) == RawScalar(CatString(StrPct(n)))
mask(lo, n) == RawScalar(CatString(StrMask(Run(lo, n))))
mbPct(n) == RawScalar(MbList(<<TokPct(n)>>))
NoClass == Class(RawNil, RawNil, RawNil)

\* The configurations SetConfig is called with.
Catalogue ==
  << \* 1: two partitions sharing L3, a class in each
     Config(FALSE, FALSE, FALSE,
       <<Partition(RawNil, pct(60), RawNil, "a" :> Class(RawNil, pct(50), RawNil)),
         Partition(RawNil, pct(40), RawNil, "b" :> NoClass)>>),
     \* 2: class a only
     Config(FALSE, FALSE, FALSE,
       <<Partition(RawNil, pct(100), RawNil,
                   "a" :> Class(RawNil, RawScalar(CatString(StrRange(50, 100))),
                                RawNil))>>),
     \* 3: class b and the root class, absolute partitions
     Config(FALSE, FALSE, FALSE,
       <<Partition(RawNil, mask(0, 4), RawNil, "b" :> Class(RawNil, mask(0, 2), RawNil)),
         Partition(RawNil, mask(4, 4), RawNil, RootClassName :> NoClass)>>),
     \* 4: the root class only
     Config(FALSE, FALSE, FALSE,
       <<Partition(RawNil, pct(100), RawNil,
                   RootClassName :> Class(RawNil, pct(50), RawNil))>>),
     \* 5: an allocation that does not parse
     Config(FALSE, FALSE, FALSE,
       <<Partition(RawNil, RawScalar(CatString(StrBad)), RawNil, "a" :> NoClass)>>),
     \* 6: overlapping absolute partitions
     Config(FALSE, FALSE, FALSE,
       <<Partition(RawNil, mask(0, 4), RawNil, "a" :> NoClass),
         Partition(RawNil, mask(2, 4), RawNil, <<>>)>>),
     \* 7: partitions asking more than 100%
     Config(FALSE, FALSE, FALSE,
       <<Partition(RawNil, pct(60), RawNil, "a" :> NoClass),
         Partition(RawNil, pct(50), RawNil, <<>>)>>),
     \* 8: code and data requests in one partition only
     Config(FALSE, FALSE, FALSE,
       <<Partition(RawNil, RawScalar(CatMap(StrPct(50), StrPct(50), StrPct(50))),
                   RawNil, "a" :> NoClass),
         Partition(RawNil, pct(50), RawNil, <<>>)>>),
     \* 9: a relative and an absolute partition
     Config(FALSE, FALSE, FALSE,
       <<Partition(RawNil, pct(50), RawNil, "a" :> NoClass),
         Partition(RawNil, mask(0, 4), RawNil, <<>>)>>),
     \* 10: class a asks for bits outside its partition
     Config(FALSE, FALSE, FALSE,
       <<Partition(RawNil, pct(50), RawNil,
                   "a" :> Class(RawNil, mask(4, 4), RawNil) @@ "b" :> NoClass)>>),
     \* 11: a class with an L2 allocation
     Config(FALSE, FALSE, FALSE,
       <<Partition(pct(100), pct(100), RawNil,
                   "a" :> Class(pct(50), RawNil, RawNil))>>),
     \* 12: the same, every resource optional
     Config(TRUE, TRUE, TRUE,
       <<Partition(pct(100), pct(100), mbPct(100),
                   "a" :> Class(pct(50), pct(50), mbPct(50)))>>),
     \* 13: an L2 allocation of the partition only
     Config(FALSE, TRUE, FALSE,
       <<Partition(pct(100), pct(100), RawNil, "a" :> NoClass)>>),
     \* 14: class a in two partitions
     Config(FALSE, FALSE, FALSE,
       <<Partition(RawNil, pct(50), RawNil, "a" :> NoClass),
         Partition(RawNil, pct(50), RawNil, "a" :> NoClass)>>),
     \* 15: the root class in two partitions, under its two names
     Config(FALSE, FALSE, FALSE,
       <<Partition(RawNil, pct(50), RawNil, RootClassAlias :> NoClass),
         Partition(RawNil, pct(50), RawNil, RootClassName :> NoClass)>>),
     \* 16: memory bandwidth
     Config(FALSE, FALSE, FALSE,
       <<Partition(RawNil, pct(100), mbPct(100),
                   "a" :> Class(RawNil, RawNil, mbPct(50)))>>),
     \* 17: a class with an L3 allocation its partition has not
     Config(FALSE, FALSE, FALSE,
       <<Partition(RawNil, RawNil, RawNil,
                   "b" :> Class(RawNil, pct(50), RawNil))>>),
     \* 18: classes a and b both ask for bits outside their partition
     Config(FALSE, FALSE, FALSE,
       <<Partition(RawNil, pct(50), RawNil,
                   "a" :> Class(RawNil, mask(4, 4), RawNil)
                     @@ "b" :> Class(RawNil, mask(5, 3), RawNil))>>) >>

\* The group directories of the resctrl root.
ClassNames == {"a", "b"}
Dirs == {relPath(Prefix, name) : name \in ClassNames \cup {RootClassAlias}}
          \cup {relPath(OtherPrefix, "a"), relPath(OtherPrefix, RootClassAlias),
                RootDir}

\* No configuration: what the control holds before the first SetConfig.
NoConf == 0

\* No monitoring group, on the filesystem or held; before the first call
\* of CreateMonGroup.
NoMonCall == [op |-> "", class |-> "", name |-> "", annotations |-> NoAnnotations,
              err |-> "", held |-> FALSE, returned |-> NoAnnotations,
              same |-> TRUE, removed |-> {}]
NoMon == [fs |-> <<>>, groups |-> <<>>, call |-> NoMonCall]

\* Before the first call of SetConfig.
NoCall ==
  [cfg |-> 0, force |-> FALSE, stage |-> "", err |-> "", stale |-> <<>>,
   removed |-> {}, created |-> {}, written |-> <<>>, added |-> {},
   dropped |-> {}, reached |-> {}, reported |-> {}, pruned |-> {},
   heldBefore |-> <<>>, heldAfter |-> <<>>]

\* After Initialize: the groups earlier runs left on the filesystem are
\* discovered (discoverFromResctrl). Config.resolve and ctrlGroup.configure
\* read the configuration and the system only: resolved holds their
\* outcomes on this system for every configuration of the catalogue.
Init ==
  /\ pc = "run"
  /\ hw \in Systems
  /\ fs \in [Dirs -> {NoDir} \cup {Group(t) : t \in 0 .. MaxTasks}]
  /\ fs[relPath(OtherPrefix, "a")] = Group(0)
  /\ fs[relPath(Prefix, RootClassAlias)] = NoDir
  /\ fs[relPath(OtherPrefix, RootClassAlias)] = NoDir
  /\ fs[RootDir] = Group(0)
  /\ classes = classesFromResctrlFs(fs)
  /\ prefixes = [name \in classesFromResctrlFs(fs) |-> Prefix]
  /\ conf = NoConf
  /\ mon = NoMon
  /\ call = NoCall
  /\ resolved = [k \in 1 .. Len(Catalogue) |-> resolveOutcomes(Catalogue[k], hw)]
  /\ PartIdle /\ ClassIdle /\ MbIdle /\ PidIdle /\ HistIdle

\* What SetConfig(Catalogue[k], force) with the outcome r does to the
\* filesystem and to the classes of the control. call tells of the call:
\* what it changed, and the monitoring groups the classes held before and
\* after it, each with its directory as the call found or left it.
SetConfigPass(k, force, r) ==
  /\ fs' = r.fs
  /\ classes' = r.classes
  /\ prefixes' = r.prefixes
  /\ mon' = [fs |-> r.mon.fs, groups |-> r.mon.groups, call |-> NoMonCall]
  /\ call' = [cfg |-> k, force |-> force, stage |-> r.stage, err |-> r.err,
              stale |-> r.stale, removed |-> r.removed,
              created |-> r.created, written |-> r.written,
              added |-> r.classes \ classes, dropped |-> classes \ r.classes,
              reached |-> r.reached, reported |-> r.reported,
              pruned |-> r.pruned,
              heldBefore |-> [e \in DOMAIN mon.groups |-> mon.fs[e]],
              heldAfter |-> [e \in DOMAIN r.mon.groups |-> r.mon.fs[e]]]

\* SetConfig(c, force), c.conf and c.rawConf left aside: no step of
\* setConfig reads them.
SetConfig ==
  \E k \in DOMAIN resolved, force \in BOOLEAN :
    \E r \in setConfig(force, fs, classes, prefixes, mon, resolved[k]) :
      /\ SetConfigPass(k, force, r)
      /\ UNCHANGED <<pc, hw, resolved, conf, partVars, classVars, mbVars, pidVars, histVars>>

\* CtrlGroup.AddPids of a class of the control: one more task in the group.
AddPids ==
  \E name \in {n \in classes \ {RootClassName} : prefixes[n] = Prefix} :
    LET path == relPath(Prefix, name) IN
    /\ fs[path].exists
    /\ fs[path].tasks < MaxTasks
    /\ fs' = [fs EXCEPT ![path].tasks = @ + 1]
    /\ UNCHANGED <<pc, hw, classes, call, resolved, prefixes, conf, mon,
                   partVars, classVars, mbVars, pidVars, histVars>>

\* A task of a group exits: a task of one of its monitoring groups, or a
\* task of none when the group has more tasks than they.
TaskExit ==
  \E path \in Dirs :
    /\ fs[path].tasks > 0
    /\ fs' = [fs EXCEPT ![path].tasks = @ - 1]
    /\ \E of \in {NoMonGroup} \cup
                  {e \in DOMAIN mon.fs : relPath(Prefix, e[1]) = path /\ mon.fs[e].tasks > 0} :
         /\ of = NoMonGroup =>
              \A e \in DOMAIN mon.fs :
                relPath(Prefix, e[1]) = path => mon.fs[e].tasks < fs[path].tasks
         /\ mon' = IF of = NoMonGroup THEN mon
                   ELSE [mon EXCEPT !.fs[of].tasks = @ - 1]
    /\ UNCHANGED <<pc, hw, classes, call, resolved, prefixes, conf,
                   partVars, classVars, mbVars, pidVars, histVars>>

\* DiscoverClasses(prefix)
DiscoverClasses ==
  \E prefix \in Prefixes, monOrder \in SetOrders(monGroupsOnFs(mon.fs)),
     monFailed \in {NoMonGroup} \cup monGroupsOnFs(mon.fs) :
    LET r == discoverFromResctrl(prefix, fs, classes, prefixes, mon,
                                 monOrder, monFailed) IN
    /\ classes' = r.classes
    /\ prefixes' = r.prefixes
    /\ mon' = [fs |-> r.mon.fs, groups |-> r.mon.groups, call |-> NoMonCall]
    /\ call' = [NoCall EXCEPT !.err = r.err]
    /\ UNCHANGED <<pc, hw, fs, resolved, conf, partVars, classVars, mbVars, pidVars, histVars>>

Next == SetConfig \/ AddPids \/ TaskExit

Spec == Init /\ [][Next]_vars

\* ------------------------------- control with discovery: specification

\* The configurations of the catalogue SetConfig is called with when the
\* classes are discovered between the calls.
StoreCatalogue == {2, 3, 6, 10, 18}

\* After Initialize on the system with L2, L3 and MB allocation.
InitStore ==
  /\ pc = "run"
  /\ hw = SystemFull
  /\ fs \in [Dirs -> {NoDir} \cup {Group(t) : t \in 0 .. MaxTasks}]
  /\ fs[relPath(Prefix, RootClassAlias)] = NoDir
  /\ fs[relPath(OtherPrefix, RootClassAlias)] = NoDir
  /\ fs[relPath(OtherPrefix, "a")] = Group(MaxTasks)
  /\ fs[relPath(Prefix, "b")] = NoDir
  /\ fs[RootDir] = Group(0)
  /\ classes = classesFromResctrlFs(fs)
  /\ prefixes = [name \in classesFromResctrlFs(fs) |-> Prefix]
  /\ conf = NoConf
  /\ mon = NoMon
  /\ call = NoCall
  /\ resolved = [k \in StoreCatalogue |-> resolveOutcomes(Catalogue[k], hw)]
  /\ PartIdle /\ ClassIdle /\ MbIdle /\ PidIdle /\ HistIdle

\* SetConfig storing the configuration before it is resolved and applied.
SetConfigStoreFirst ==
  \E k \in DOMAIN resolved, force \in BOOLEAN :
    \E r \in setConfig(force, fs, classes, prefixes, mon, resolved[k]) :
      /\ SetConfigPass(k, force, r)
      /\ conf' = k
      /\ UNCHANGED <<pc, hw, resolved, partVars, classVars, mbVars, pidVars, histVars>>

\* SetConfig(c, force): on success the configuration is stored.
SetConfigStore ==
  \E k \in DOMAIN resolved, force \in BOOLEAN :
    \E r \in setConfig(force, fs, classes, prefixes, mon, resolved[k]) :
      /\ SetConfigPass(k, force, r)
      /\ conf' = IF r.err = "" THEN k ELSE conf
      /\ UNCHANGED <<pc, hw, resolved, partVars, classVars, mbVars, pidVars, histVars>>

NextStore == SetConfigStore \/ DiscoverClasses \/ AddPids \/ TaskExit

SpecStore == InitStore /\ [][NextStore]_vars

\* ------------------- control beside another user's groups: specification

\* The configurations SetConfig is called with beside the groups of the
\* other user.
ForeignCatalogue == {3, 15}

\* After Initialize, the other user having group a with tasks and maybe a
\* group of the empty name, its directory named by the bare prefix.
InitForeign ==
  /\ pc = "run"
  /\ hw = SystemFull
  /\ fs \in [Dirs -> {NoDir} \cup {Group(t) : t \in 0 .. MaxTasks}]
  /\ fs[relPath(Prefix, RootClassAlias)] = NoDir
  /\ fs[relPath(Prefix, "b")] = NoDir
  /\ fs[relPath(OtherPrefix, RootClassAlias)].tasks = 0
  /\ fs[relPath(OtherPrefix, "a")] = Group(MaxTasks)
  /\ fs[RootDir] = Group(0)
  /\ classes = classesFromResctrlFs(fs)
  /\ prefixes = [name \in classesFromResctrlFs(fs) |-> Prefix]
  /\ conf = NoConf
  /\ mon = NoMon
  /\ call = NoCall
  /\ resolved = [k \in ForeignCatalogue |-> resolveOutcomes(Catalogue[k], hw)]
  /\ PartIdle /\ ClassIdle /\ MbIdle /\ PidIdle /\ HistIdle

SpecForeign == InitForeign /\ [][NextStore]_vars

\* ----------------------- control with monitoring groups: specification

\* The classes monitoring groups are created under, their names and
\* annotations.
MonClasses == {"a", RootClassName}
MonNames == {"m"}
MonGroups == MonClasses \X MonNames
AnnotationValues == {"x=1", "x=2"}

\* The configurations SetConfig is called with when monitoring groups are
\* there.
MonCatalogue == {2, 4}

\* After Initialize: the new ctrlGroups hold the monitoring groups earlier
\* runs left on the filesystem (monGroupsFromResctrlFs); the tasks of a
\* monitoring group are tasks of its class.
InitMon ==
  /\ pc = "run"
  /\ hw = SystemFull
  /\ fs \in [Dirs -> {NoDir} \cup {Group(t) : t \in 0 .. MaxTasks}]
  /\ fs[relPath(OtherPrefix, "a")] = Group(0)
  /\ fs[relPath(Prefix, RootClassAlias)] = NoDir
  /\ fs[relPath(OtherPrefix, RootClassAlias)] = NoDir
  /\ fs[relPath(Prefix, "a")].exists
  /\ fs[relPath(Prefix, "b")] = NoDir
  /\ fs[RootDir] = Group(0)
  /\ classes = classesFromResctrlFs(fs)
  /\ prefixes = [name \in classesFromResctrlFs(fs) |-> Prefix]
  /\ conf = NoConf
  /\ \E mdirs \in [MonGroups -> {NoDir} \cup {Group(t) : t \in 0 .. MaxTasks}] :
       /\ \A e \in MonGroups :
            /\ mdirs[e].exists => fs[relPath(Prefix, e[1])].exists
            /\ mdirs[e].tasks <= fs[relPath(Prefix, e[1])].tasks
       /\ mon = [fs |-> mdirs,
                 groups |-> monGroupsFromResctrlFs(<<>>, MonClasses, mdirs),
                 call |-> NoMonCall]
  /\ call = NoCall
  /\ resolved = [k \in MonCatalogue |-> resolveOutcomes(Catalogue[k], hw)]
  /\ PartIdle /\ ClassIdle /\ MbIdle /\ PidIdle /\ HistIdle

\* CtrlGroup.CreateMonGroup(name, annotations) of a class of the control.
CreateMonGroup ==
  \E class \in {n \in MonClasses \cap classes : prefixes[n] = Prefix},
     name \in MonNames, annotations \in AnnotationValues, fails \in BOOLEAN :
    /\ mon' = createMonGroup(mon, class, name, annotations,
                             fs[relPath(Prefix, class)].exists, fails)
    /\ UNCHANGED <<pc, hw, fs, classes, call, resolved, prefixes, conf,
                   partVars, classVars, mbVars, pidVars, histVars>>

\* MonGroup.AddPids: a task of the class is assigned to the monitoring
\* group.
MonAddPids ==
  \E e \in DOMAIN mon.groups :
    /\ mon.fs[e].exists
    /\ mon.fs[e].tasks < fs[relPath(Prefix, e[1])].tasks
    /\ mon' = [mon EXCEPT !.fs[e].tasks = @ + 1]
    /\ UNCHANGED <<pc, hw, fs, classes, call, resolved, prefixes, conf,
                   partVars, classVars, mbVars, pidVars, histVars>>

\* CtrlGroup.DeleteMonGroup(name) of a class of the control.
DeleteMonGroup ==
  \E class \in {n \in MonClasses \cap classes : prefixes[n] = Prefix},
     name \in MonNames, fails \in BOOLEAN :
    /\ mon' = deleteMonGroup(mon, class, name, fails)
    /\ UNCHANGED <<pc, hw, fs, classes, call, resolved, prefixes, conf,
                   partVars, classVars, mbVars, pidVars, histVars>>

NextMon ==
  \/ SetConfigStore \/ DiscoverClasses \/ CreateMonGroup \/ MonAddPids
  \/ AddPids \/ TaskExit

SpecMon == InitMon /\ [][NextMon]_vars

\* Monitoring groups made and deleted by the user of the classes, between
\* the calls of SetConfig.
NextMonDel == CreateMonGroup \/ DeleteMonGroup \/ MonAddPids

SpecMonDel == InitMon /\ [][NextMonDel]_vars

\* ------------------------- control, SetConfig called again: specification

\* What a call of SetConfig left: the filesystem, the classes of the
\* control, the monitoring groups.
Left(dirs, tracked, pfx, mdirs, groups) == <<dirs, tracked, pfx, mdirs, groups>>

\* SetConfig(c, force): prior tells whether the call before it was of the
\* same configuration, succeeded, and left what this call found (again),
\* and what that call wrote.
SetConfigAgain ==
  \E k \in DOMAIN resolved, force \in BOOLEAN :
    \E r \in setConfig(force, fs, classes, prefixes, mon, resolved[k]) :
      /\ SetConfigPass(k, force, r)
      /\ conf' = IF r.err = "" THEN k ELSE conf
      /\ prior' = [left |-> Left(r.fs, r.classes, r.prefixes, r.mon.fs, r.mon.groups),
                   again |-> /\ call.cfg = k /\ call.err = ""
                             /\ prior.left = Left(fs, classes, prefixes,
                                                  mon.fs, mon.groups),
                   written |-> call.written]
      /\ UNCHANGED <<pc, hw, resolved, partVars, classVars, mbVars, pidVars>>

NextAgain == SetConfigAgain \/ MonAddPids \/ AddPids \/ TaskExit

SpecAgain == InitMon /\ [][NextAgain]_vars

\* -------------------- control, groups to remove and to make: specification

\* The configurations SetConfig is called with: class a only; class b and
\* the root class.
OrderCatalogue == {2, 3}

\* After Initialize: groups a and b of earlier runs may be on the
\* filesystem, with monitoring groups of a and of the root class.
InitOrder ==
  /\ pc = "run"
  /\ hw = SystemFull
  /\ fs \in [Dirs -> {NoDir} \cup {Group(t) : t \in 0 .. MaxTasks}]
  /\ fs[relPath(OtherPrefix, "a")] = Group(0)
  /\ fs[relPath(Prefix, RootClassAlias)] = NoDir
  /\ fs[relPath(OtherPrefix, RootClassAlias)] = NoDir
  /\ fs[RootDir] = Group(0)
  /\ classes = classesFromResctrlFs(fs)
  /\ prefixes = [name \in classesFromResctrlFs(fs) |-> Prefix]
  /\ conf = NoConf
  /\ \E mdirs \in [MonGroups -> {NoDir} \cup {Group(t) : t \in 0 .. MaxTasks}] :
       /\ \A e \in MonGroups :
            /\ mdirs[e].exists => fs[relPath(Prefix, e[1])].exists
            /\ mdirs[e].tasks <= fs[relPath(Prefix, e[1])].tasks
       /\ mon = [fs |-> mdirs,
                 groups |-> monGroupsFromResctrlFs(<<>>, MonClasses, mdirs),
                 call |-> NoMonCall]
  /\ call = NoCall
  /\ resolved = [k \in OrderCatalogue |-> resolveOutcomes(Catalogue[k], hw)]
  /\ PartIdle /\ ClassIdle /\ MbIdle /\ PidIdle /\ HistIdle

SpecOrder == InitOrder /\ [][NextAgain]_vars

\* ------------------------------------------------------- control: claims

\* SetConfig was called; the configuration of the last call.
Called == call.cfg # 0
LastConfig == Catalogue[call.cfg]

\* The last call resolved its configuration and went on to configureResctrl.
Pass == Called /\ call.stage # "invalid configuration"

\* The groups the last call found on the filesystem with the prefix of the
\* control, not the root class and absent from its configuration.
StaleFound == DOMAIN call.stale

DirExists(name) == fs[relPath(Prefix, name)].exists

Refused == call.err = "refusing to remove non-empty resctrl group"
RemoveFailed == call.err = "failed to remove resctrl group"

NothingMutated ==
  /\ call.removed = {} /\ call.created = {} /\ call.written = <<>>
  /\ call.added = {} /\ call.dropped = {}

DoesNotFit == call.err = "does not fit basemask"
RequiredUnsupported ==
  call.err \in {"L2 cache allocation specified in configuration but not supported by system",
                "L3 cache allocation specified in configuration but not supported by system",
                "memory bandwidth allocation specified in configuration but not supported by system"}
NotResolvable ==
  call.err \in {"failed to parse allocation request",
                "failed to resolve L2 allocation for class",
                "failed to resolve L3 allocation for class",
                "failed to resolve MB allocation for partition",
                "failed to resolve MB allocation for class",
                "overlapping partition allocation", "exceeds 100%",
                "missing allocation request", "mixing absolute and relative",
                "not enough exclusive bits", "class names must be unique",
                "L2 allocation missing from partition",
                "L3 allocation missing from partition",
                "MB allocation missing from partition"}

\* C5 as stated: when SetConfig fails on a parse error, overlapping or
\* over-100% partitions, inconsistent code and data requests, mixed absolute
\* and relative partitions, a class allocation that does not fit the mask of
\* its partition or a required resource the system lacks, nothing was
\* mutated.
C5_FailureMutatesNothing ==
  (Called /\ (NotResolvable \/ DoesNotFit \/ RequiredUnsupported)) => NothingMutated

\* C5, amended: a failure of Config.resolve (parse error, overlapping or
\* over-100% partitions, inconsistent code and data requests, mixed absolute
\* and relative partitions, a class named twice, a class allocation its
\* partition has not) mutates nothing; a class allocation that does not fit
\* and a required resource the system lacks are found by configureResctrl,
\* not by Config.resolve.
C5_ResolveFailureMutatesNothing ==
  Called =>
    /\ call.stage = "invalid configuration" => NothingMutated
    /\ NotResolvable => call.stage = "invalid configuration"
    /\ (DoesNotFit \/ RequiredUnsupported) =>
         call.stage = "resctrl configuration failed"

\* Overlapping partitions were refused while group b, which the
\* configuration does not name, has a task: b is still there.
C5_Witness ==
  /\ Called /\ call.cfg = 6 /\ call.err = "overlapping partition allocation"
  /\ call.stage = "invalid configuration"
  /\ DirExists("b") /\ fs[relPath(Prefix, "b")].tasks > 0 /\ "b" \in classes
  /\ NothingMutated

\* The configuration names a class under two partitions, the two names of
\* the root class taken as one name.
NamedTwice(c) ==
  \E p, q \in 1 .. Len(c.Partitions) :
    /\ p # q
    /\ \E g \in DOMAIN c.Partitions[p].Classes, h \in DOMAIN c.Partitions[q].Classes :
         unaliasClassName(g) = unaliasClassName(h)

\* C6: a configuration that names a class under two partitions does not
\* resolve, the empty name and the reserved name of the root class being
\* the same name.
C6_DuplicateClassRejected ==
  (Called /\ NamedTwice(LastConfig)) => call.stage = "invalid configuration"

\* The raw allocation of a cache level in a partition and in a class.
PartitionRaw(partition, lvl) ==
  IF lvl = "L2" THEN partition.L2Allocation ELSE partition.L3Allocation
ClassRaw(class, lvl) == IF lvl = "L2" THEN class.L2Schema ELSE class.L3Schema

PartitionDeclares(c, lvl) ==
  \E p \in 1 .. Len(c.Partitions) : PartitionRaw(c.Partitions[p], lvl).shape # "nil"
ClassDeclares(c, lvl) ==
  \E p \in 1 .. Len(c.Partitions) : \E g \in DOMAIN c.Partitions[p].Classes :
    ClassRaw(c.Partitions[p].Classes[g], lvl).shape # "nil"

Unsupported(lvl) == ~hw.cat[lvl].unified /\ ~hw.cat[lvl].cdp

UnsupportedError(lvl) ==
  lvl \o " cache allocation specified in configuration but not supported by system"

\* No schemata the last call wrote has a line of the level.
NoLineOf(lvl) ==
  \A name \in DOMAIN call.written : \A j \in 1 .. Len(call.written[name]) :
    call.written[name][j].tag \notin {lvl, lvl \o "CODE", lvl \o "DATA"}

ClassesOf(c) ==
  {unaliasClassName(g) :
     g \in UNION {DOMAIN c.Partitions[p].Classes : p \in 1 .. Len(c.Partitions)}}

\* C12: after a SetConfig that returns success, the classes of the control
\* are the classes of the configuration and the root class, every class of
\* the configuration but the root class has its directory, and no directory
\* with the prefix of the control is there for a name the configuration
\* does not have.
C12_SuccessMatchesConfiguration ==
  (Called /\ call.err = "") =>
    /\ {unaliasClassName(n) : n \in classes} = ClassesOf(LastConfig) \cup {RootClassName}
    /\ \A n \in ClassesOf(LastConfig) \ {RootClassName} : DirExists(n)
    /\ \A d \in resctrlGroupsFromFs(Prefix, fs) :
         unaliasClassName(d[2]) \in ClassesOf(LastConfig)

\* C13: in every state SetConfig and DiscoverClasses calls lead to, the
\* root class is a class of the control and the resctrl root, the group of
\* the root class, is on the filesystem.
C13_RootClassStays == RootClassName \in classes /\ fs[RootDir].exists

\* A configuration without the root class was installed with force and a
\* group removed, then the groups of the other user were discovered.
C13_Witness ==
  /\ conf = 2 /\ RootClassName \notin ClassesOf(Catalogue[conf])
  /\ ~DirExists("b") /\ "a" \in classes /\ prefixes["a"] = OtherPrefix
  /\ C13_RootClassStays

\* The classes of the configuration of the last call whose configure fails.
FailingClasses ==
  {name \in DOMAIN Catalogue[call.cfg].Partitions[1].Classes :
     \E res \in resolved[call.cfg] :
       res.err = "" /\ name \in DOMAIN res.configured /\ res.configured[name].err # ""}

\* The last loop of the last call came to a class whose configure fails.
ConfigureFailed == Pass /\ call.reported # {}

\* C14 as stated: when the configure of several classes fails in one pass,
\* the pass goes on past each failure and the error SetConfig returns tells
\* of every one of them.
C14_EveryFailureReported ==
  ConfigureFailed => (FailingClasses \subseteq call.reached /\ call.reported = FailingClasses)

\* C14, amended: the pass stops at the first step that fails and SetConfig
\* returns the error of that step only: after a removal refused or failed no
\* class is configured, and after the configure of a class failed no other
\* class is reached and the failure of no other class is reported.
C14_FirstFailureOnly ==
  Pass =>
    /\ (Refused \/ RemoveFailed) => (call.reached = {} /\ call.reported = {})
    /\ call.err = "" => call.reported = {}
    /\ call.reported # {} =>
         /\ call.err # ""
         /\ Cardinality(call.reported) = 1
         /\ call.reached \cap FailingClasses = call.reported
         /\ \A name \in call.reported : name \notin DOMAIN call.written

\* The configure of classes a and b both fail; the pass stopped at a, b was
\* not reached and its group not created.
C14_Witness ==
  /\ ConfigureFailed /\ call.cfg = 18 /\ FailingClasses = {"a", "b"}
  /\ call.reported = {"a"} /\ call.reached = {"a"}
  /\ "b" \notin call.created /\ ~DirExists("b") /\ DoesNotFit

\* C15: after a SetConfig that returned success, no monitoring group the
\* classes held at its return was without tasks, and every monitoring
\* group held before the call that had no tasks was held no more and its
\* directory gone; after any SetConfig, a monitoring group held before the
\* call that had a task and whose class is in the configuration, or is the
\* root class, was still held and its directory as before.
C15_EmptyMonGroupsPruned ==
  Called =>
    /\ call.err = "" =>
         /\ \A e \in DOMAIN call.heldAfter : call.heldAfter[e].tasks > 0
         /\ \A e \in DOMAIN call.heldBefore :
              call.heldBefore[e].tasks = 0 =>
                (e \notin DOMAIN call.heldAfter /\ e \in call.pruned \cup
                   {x \in DOMAIN call.heldBefore : x[1] \in call.removed})
    /\ \A e \in DOMAIN call.heldBefore :
         (call.heldBefore[e].tasks > 0
            /\ e[1] \in ClassesOf(LastConfig) \cup {RootClassName}) =>
           (e \in DOMAIN call.heldAfter /\ call.heldAfter[e] = call.heldBefore[e])

\* A successful SetConfig with class a removed the monitoring group of the
\* root class, which had no task, and left that of class a, which has one.
C15_Witness ==
  /\ Called /\ call.err = "" /\ call.cfg = 2
  /\ DOMAIN call.heldBefore = {<<RootClassName, "m">>, <<"a", "m">>}
  /\ call.heldBefore[<<RootClassName, "m">>].tasks = 0
  /\ call.pruned = {<<RootClassName, "m">>}
  /\ ~mon.fs[<<RootClassName, "m">>].exists
  /\ <<RootClassName, "m">> \notin DOMAIN mon.groups
  /\ <<"a", "m">> \in DOMAIN mon.groups /\ mon.fs[<<"a", "m">>].tasks > 0

\* The last call was CreateMonGroup, and it succeeded.
Created == mon.call.op = "create" /\ mon.call.err = ""

\* C20: after a successful CreateMonGroup the directory of the monitoring
\* group is on the filesystem and the class holds the group; when the class
\* held a group of that name before the call, the group returned has the
\* annotations it had, not those of the call, and the monitoring groups held
\* and their annotations are as before.
C20_CreateMonGroupIdempotent ==
  Created =>
    LET e == <<mon.call.class, mon.call.name>> IN
    /\ mon.fs[e].exists
    /\ e \in DOMAIN mon.groups /\ mon.groups[e] = mon.call.returned
    /\ mon.call.held => mon.call.same
    /\ ~mon.call.held => mon.call.returned = mon.call.annotations

\* A second CreateMonGroup of m under class a, with other annotations,
\* returned the group with the annotations of the first call.
C20_Witness ==
  /\ Created /\ mon.call.held
  /\ mon.call.class = "a" /\ mon.call.annotations = "x=2"
  /\ mon.call.returned = "x=1" /\ mon.groups[<<"a", "m">>] = "x=1"
  /\ mon.fs[<<"a", "m">>].exists

\* C29: when SetConfig has succeeded and is then called with the same
\* configuration, the filesystem, the classes and the monitoring groups
\* being as the first call left them, the second call succeeds, removes and
\* creates no group and no monitoring group, writes the schemata the first
\* call wrote, and the classes of the control and the monitoring groups
\* they hold are the same after it.
C29_SetConfigIdempotent ==
  prior.again =>
    /\ call.err = ""
    /\ call.removed = {} /\ call.created = {} /\ call.pruned = {}
    /\ call.written = prior.written
    /\ call.added = {} /\ call.dropped = {}
    /\ call.heldAfter = call.heldBefore

\* Class a configured twice over with a monitoring group that has a task:
\* the second call wrote the schemata of a again and kept the group.
C29_Witness ==
  /\ prior.again /\ call.cfg = 2
  /\ "a" \in DOMAIN call.written
  /\ <<"a", "m">> \in DOMAIN call.heldAfter

\* C30: a SetConfig that made a group directory, reached a class of the
\* configuration or wrote a schemata file has removed every group it found
\* to remove; one that left such a group, refused or failing to remove it,
\* has returned the error with nothing made, written or pruned; and one
\* that pruned a monitoring group has reached every class of the
\* configuration, none of them failing.
C30_PassOrdered ==
  Called =>
    /\ (call.created # {} \/ call.reached # {} \/ call.written # <<>>) =>
         call.removed = DOMAIN call.stale
    /\ call.removed # DOMAIN call.stale =>
         /\ call.err # ""
         /\ call.created = {} /\ call.written = <<>> /\ call.pruned = {}
    /\ call.pruned # {} =>
         /\ call.reached = ClassesOf(Catalogue[call.cfg])
         /\ call.reported = {}
         /\ call.created \subseteq call.reached

\* One call removed group b, made the group of class a and wrote its
\* schemata, and pruned the monitoring group of the root class.
C30_Witness ==
  /\ Called /\ call.cfg = 2
  /\ call.removed = {"b"} /\ call.created = {"a"}
  /\ "a" \in DOMAIN call.written
  /\ call.pruned = {<<RootClassName, "m">>}

\* C16: the configuration the control holds changes only in a step in
\* which SetConfig returns success, to the configuration of that call; a
\* SetConfig that fails, in Config.resolve or in configureResctrl, leaves it
\* as it was.
C16_StoredOnlyOnSuccess ==
  [][/\ conf' # conf => (call'.cfg = conf' /\ call'.err = "")
     /\ (call'.cfg # 0 /\ call'.err # "") => conf' = conf
     /\ (call'.cfg # 0 /\ call'.err = "") => conf' = call'.cfg]_vars

\* Configuration 2 was installed; SetConfig of configuration 10 then failed
\* after it had created the group of class b, and configuration 2 is still
\* the one held.
C16_Witness ==
  /\ Called /\ call.cfg = 10 /\ call.stage = "resctrl configuration failed"
  /\ call.created = {"b"} /\ DirExists("b")
  /\ conf = 2

\* The directories of the resctrl root whose name has not the prefix of the
\* control: the groups of the other user.
Foreign == {d \in Dirs \ {RootDir} : ~HasPrefix(d, Prefix)}

\* C17: no step of SetConfig, forced or not, changes a directory of the
\* resctrl root whose name has not the prefix of the control: none is
\* removed, created, or given or taken a task, and but for the root class
\* the schemata are written to groups with the prefix of the control only.
C17_ForeignGroupsUntouched ==
  [][\/ /\ \A d \in Foreign : fs'[d] = fs[d]
        /\ \A name \in DOMAIN call'.written :
             name = RootClassName \/ prefixes'[name] = Prefix
     \/ ~SetConfigStore]_vars

\* A raw allocation given as a map of cache ids without the key 'all'.
MapWithoutAll(raw) == raw.shape = "map" /\ ~raw.hasAll

\* C19: an allocation given as a map of cache ids without the key 'all' is
\* rejected, for a partition and for a class.
C19_MapWithoutAllRejected ==
  (pc = "written"
     /\ \E raw \in {mbin.parts[1], mbin.parts[2], mbin.cls} : MapWithoutAll(raw))
    => mbout.err # ""

\* C28: DeleteMonGroup with a name that is not a monitoring group of the
\* class returns success without a fault, removes nothing and leaves the
\* monitoring groups of the class as they are; with the name of one it
\* removes the directory and the class holds the group no longer; when the
\* removal fails the class still holds it.
C28_DeleteMonGroupOutcomes ==
  mon.call.op = "delete" =>
    LET e == <<mon.call.class, mon.call.name>> IN
    /\ ~mon.call.held =>
         mon.call.err = "" /\ mon.call.removed = {} /\ mon.call.same
    /\ (mon.call.held /\ mon.call.err = "") =>
         /\ mon.call.removed = {e} /\ ~mon.fs[e].exists
         /\ e \notin DOMAIN mon.groups
    /\ (mon.call.held /\ mon.call.err # "") =>
         mon.call.same /\ e \in DOMAIN mon.groups

\* The cache ids the capability descriptor has for the resource of a line.
IdsOfLine(l) ==
  IF l.tag = "MB" THEN hw.mb.ids
  ELSE IF l.tag \in {"L2", "L2CODE", "L2DATA"} THEN hw.cat.L2.ids
  ELSE hw.cat.L3.ids

\* C24: every line written to the schemata of a class lists every cache id
\* the capability descriptor has for the resource of the line exactly once,
\* in ascending order; a configuration that leaves a cache id of a supported
\* resource without an allocation is rejected and no such line is written.
C24_LinesListEveryCacheId ==
  \A name \in DOMAIN call.written :
    \A k \in 1 .. Len(call.written[name]) :
      [j \in 1 .. Len(call.written[name][k].vals) |-> call.written[name][k].vals[j][1]]
        = SortUint64s(IdsOfLine(call.written[name][k]))

\* ------------------------------------------ process assignment: program

\* The outcome of writing one process id to the tasks file: accepted,
\* refused with ESRCH, or refused with another error.
WriteOutcomes == {"ok", "ESRCH", "EIO"}

\* The loop of resctrlGroup.AddPids from the k-th id on: acc holds the ids
\* assigned, the indices of the writes attempted and the error so far.
RECURSIVE writePids(_, _, _, _)
writePids(pids, outcome, k, acc) ==
  IF k > Len(pids) THEN acc
  ELSE IF outcome[k] = "ok"
    THEN writePids(pids, outcome, k + 1,
                   [acc EXCEPT !.written = Append(@, pids[k]),
                               !.attempted = @ \cup {k}])
  ELSE IF outcome[k] = "ESRCH"
    THEN writePids(pids, outcome, k + 1, [acc EXCEPT !.attempted = @ \cup {k}])
  ELSE [acc EXCEPT !.attempted = @ \cup {k},
                   !.err = "failed to assign processes"]

addPidsNoSkip(pids, outcome, openFails, closeFails) ==
  IF openFails THEN [written |-> <<>>, attempted |-> {}, err |-> "open"]
  ELSE LET closed(r) == IF r.err = "" /\ closeFails
                        THEN [r EXCEPT !.err = "close"] ELSE r
       IN closed(writePids(pids, [k \in DOMAIN outcome |->
                                   IF outcome[k] = "ok" THEN "ok" ELSE "EIO"],
                           1, [written |-> <<>>, attempted |-> {}, err |-> ""]))

\* resctrlGroup.AddPids: the tasks file is opened, the ids are written one
\* by one, and the file is closed when the function returns.
addPids(pids, outcome, openFails, closeFails) ==
  IF openFails THEN [written |-> <<>>, attempted |-> {}, err |-> "open"]
  ELSE LET closed(r) == IF r.err = "" /\ closeFails
                        THEN [r EXCEPT !.err = "close"] ELSE r
       IN closed(writePids(pids, outcome, 1,
                           [written |-> <<>>, attempted |-> {}, err |-> ""]))

\* ------------------------------------ process assignment: specification

\* The longest list of process ids of one call.
MaxPids == 3

\* The process ids of the calls (rdt_test.go).
Pids == {"10", "11", "12"}

PidLists == {<<>>} \cup SeqsUpTo(Pids, MaxPids)

NoPidCall == <<>>

PidInit ==
  /\ pc = "init"
  /\ hw = <<>>
  /\ tasks \in {<<>>} \cup SeqsUpTo(Pids, 1)
  /\ pidcall = NoPidCall
  /\ PartIdle /\ ClassIdle /\ MbIdle /\ CtlIdle /\ HistIdle

\* cls.AddPids(pids...)
AddPidsCall ==
  /\ pc = "init"
  /\ \E pids \in PidLists, openFails \in BOOLEAN, closeFails \in BOOLEAN :
       \E outcome \in [1 .. Len(pids) -> WriteOutcomes] :
         LET r == addPids(pids, outcome, openFails, closeFails) IN
         /\ tasks' = tasks \o r.written
         /\ pidcall' = [pids |-> pids, outcome |-> outcome,
                        openFails |-> openFails, closeFails |-> closeFails,
                        before |-> tasks, written |-> r.written,
                        attempted |-> r.attempted, err |-> r.err]
  /\ pc' = "written"
  /\ UNCHANGED <<hw, partVars, classVars, mbVars, ctlVars, histVars>>

PidNext == AddPidsCall

SpecPids == PidInit /\ [][PidNext]_vars

\* ----------------------------------------- process assignment: claims

\* AddPids was called and could open the tasks file.
PidsCalled == pidcall # NoPidCall /\ ~pidcall.openFails

\* The writes that failed with an error other than ESRCH.
FatalWrites ==
  {k \in 1 .. Len(pidcall.pids) : pidcall.outcome[k] \notin {"ok", "ESRCH"}}

\* The ids among the first n of the call the kernel accepted, in order.
RECURSIVE AcceptedUpTo(_)
AcceptedUpTo(n) ==
  IF n = 0 THEN <<>>
  ELSE IF pidcall.outcome[n] = "ok"
    THEN Append(AcceptedUpTo(n - 1), pidcall.pids[n])
  ELSE AcceptedUpTo(n - 1)

\* C21: AddPids writes the ids one at a time in the given order. A write
\* refused with 'no such process' is skipped and the ids after it are still
\* written, and with no other failure the call returns success. The first
\* write that fails for another reason makes the call return an error at
\* once: the ids before it are assigned, the ids after it are not attempted.
C21_AddPidsSkipsMissingStopsAtFailure ==
  PidsCalled =>
    /\ FatalWrites = {} =>
          /\ pidcall.attempted = 1 .. Len(pidcall.pids)
          /\ tasks = pidcall.before \o AcceptedUpTo(Len(pidcall.pids))
          /\ ~pidcall.closeFails => pidcall.err = ""
    /\ FatalWrites # {} =>
          /\ pidcall.err = "failed to assign processes"
          /\ pidcall.attempted = 1 .. Min(FatalWrites)
          /\ tasks = pidcall.before \o AcceptedUpTo(Min(FatalWrites) - 1)

\* A call of three ids: the first is of no process, the second is assigned,
\* the third fails; and a call that skips an id and succeeds.
C21_Witness ==
  /\ PidsCalled /\ Len(pidcall.pids) = 3
  /\ pidcall.outcome = <<"ESRCH", "ok", "EIO">>
  /\ pidcall.written = <<pidcall.pids[2]>> /\ pidcall.err # ""

====
